---- MODULE Spec2Model ----
(***************************************************************************)
(* Model of excalidraw-cli: the DSL lexer and assembler (parseDSL), the    *)
(* JSON and DOT adapters (parseJSON, parseDOT), the arrow factory          *)
(* (createArrow), the create pipeline of the CLI and the document          *)
(* generator (generateExcalidraw).                                         *)
(*                                                                         *)
(* Text is a sequence of one-character strings.  Positions are 1-based     *)
(* here and 0-based in the source: a source position p is p + 1 here.      *)
(* An optional value is the empty sequence (absent: null or undefined) or  *)
(* a one-element sequence.  nanoid() draws from the counter nextId:        *)
(* generated ids never collide.                                            *)
(***************************************************************************)
EXTENDS Integers, Sequences, FiniteSets, TLC

None == << >>
Some(x) == << x >>

(***************************************************************************)
(* Characters and strings                                                  *)
(***************************************************************************)
Lower == {"a", "b", "c", "d", "e", "f", "g", "h", "i", "j", "k", "l", "m",
          "n", "o", "p", "q", "r", "s", "t", "u", "v", "w", "x", "y", "z"}
Upper == {"A", "B", "C", "D", "E", "F", "G", "H", "I", "J", "K", "L", "M",
          "N", "O", "P", "Q", "R", "S", "T", "U", "V", "W", "X", "Y", "Z"}
Digits == {"0", "1", "2", "3", "4", "5", "6", "7", "8", "9"}
\* /[a-zA-Z0-9]/
Alnum == Lower \cup Upper \cup Digits
\* the characters String.prototype.trim and the regular expression \s remove
WhiteSpace == {" ", "\t", "\n", "\r"}

\* input[i], with "" for a position past the end (undefined equals no character)
At(input, i) == IF i >= 1 /\ i <= Len(input) THEN input[i] ELSE ""

Slice(s, from, to) == IF to < from THEN << >> ELSE SubSeq(s, from, to)

RECURSIVE TrimStart(_)
TrimStart(s) ==
  IF s # << >> /\ Head(s) \in WhiteSpace THEN TrimStart(Tail(s)) ELSE s

RECURSIVE TrimEnd(_)
TrimEnd(s) ==
  IF s # << >> /\ s[Len(s)] \in WhiteSpace
    THEN TrimEnd(SubSeq(s, 1, Len(s) - 1))
    ELSE s

\* String.prototype.trim
Trim(s) == TrimEnd(TrimStart(s))

LowerSeq == << "a", "b", "c", "d", "e", "f", "g", "h", "i", "j", "k", "l", "m",
              "n", "o", "p", "q", "r", "s", "t", "u", "v", "w", "x", "y", "z" >>
UpperSeq == << "A", "B", "C", "D", "E", "F", "G", "H", "I", "J", "K", "L", "M",
              "N", "O", "P", "Q", "R", "S", "T", "U", "V", "W", "X", "Y", "Z" >>

\* String.prototype.toUpperCase
ToUpperChar(c) ==
  IF c \in Lower THEN UpperSeq[CHOOSE k \in 1..Len(LowerSeq) : LowerSeq[k] = c] ELSE c

ToUpperCase(s) == [k \in 1..Len(s) |-> ToUpperChar(s[k])]

\* String.prototype.toLowerCase
ToLowerChar(c) ==
  IF c \in Upper THEN LowerSeq[CHOOSE k \in 1..Len(UpperSeq) : UpperSeq[k] = c] ELSE c

ToLowerCase(s) == [k \in 1..Len(s) |-> ToLowerChar(s[k])]

DigitVal(c) ==
  CASE c = "0" -> 0 [] c = "1" -> 1 [] c = "2" -> 2 [] c = "3" -> 3
    [] c = "4" -> 4 [] c = "5" -> 5 [] c = "6" -> 6 [] c = "7" -> 7
    [] c = "8" -> 8 [] c = "9" -> 9

RECURSIVE DigitsValue(_, _)
DigitsValue(s, acc) ==
  IF s = << >> THEN acc ELSE DigitsValue(Tail(s), acc * 10 + DigitVal(Head(s)))

RECURSIVE LeadingDigits(_)
LeadingDigits(s) ==
  IF s # << >> /\ Head(s) \in Digits
    THEN << Head(s) >> \o LeadingDigits(Tail(s))
    ELSE << >>

\* parseInt(s, 10): leading white space, an optional sign, then the longest
\* run of digits; None is NaN
ParseInt(s) ==
  LET t == TrimStart(s)
      neg == t # << >> /\ Head(t) = "-"
      u == IF t # << >> /\ Head(t) \in {"-", "+"} THEN Tail(t) ELSE t
      d == LeadingDigits(u)
  IN IF d = << >> THEN None
       ELSE Some(IF neg THEN 0 - DigitsValue(d, 0) ELSE DigitsValue(d, 0))

\* String.prototype.split(/\s+/): the pieces between maximal runs of white
\* space; a leading or trailing run leaves an empty piece at that end
RECURSIVE SplitWS(_, _)
SplitWS(s, cur) ==
  IF s = << >> THEN << cur >>
  ELSE IF Head(s) \in WhiteSpace
    THEN << cur >> \o SplitWS(TrimStart(s), << >>)
    ELSE SplitWS(Tail(s), Append(cur, Head(s)))

\* String.prototype.split(ch) for a one-character separator
RECURSIVE SplitChar(_, _, _)
SplitChar(s, ch, cur) ==
  IF s = << >> THEN << cur >>
  ELSE IF Head(s) = ch
    THEN << cur >> \o SplitChar(Tail(s), ch, << >>)
    ELSE SplitChar(Tail(s), ch, Append(cur, Head(s)))

\* String.prototype.includes
Includes(s, sub) ==
  \E k \in 1..(Len(s) - Len(sub) + 1) : SubSeq(s, k, k + Len(sub) - 1) = sub

\* Array.prototype.join(' ')
RECURSIVE JoinSpace(_)
JoinSpace(parts) ==
  IF parts = << >> THEN << >>
  ELSE IF Len(parts) = 1 THEN parts[1]
  ELSE parts[1] \o << " " >> \o JoinSpace(Tail(parts))

(***************************************************************************)
(* The lexer: tokenize                                                     *)
(***************************************************************************)
\* A token.  A flag the source leaves unset (undefined) is FALSE: its only
\* reader applies `|| false`.  imageWidth / imageHeight are optional numbers.
Tok(type, value) ==
  [type |-> type, value |-> value, nodeType |-> "",
   dashed |-> FALSE, bidirectional |-> FALSE, reversed |-> FALSE,
   imageSrc |-> << >>, imageWidth |-> None, imageHeight |-> None,
   decorationAnchor |-> << >>]

NodeTok(label, nodeType) == [Tok("node", label) EXCEPT !.nodeType = nodeType]

ArrowTok(value, dashed, bidirectional, reversed) ==
  [Tok("arrow", value) EXCEPT !.dashed = dashed,
                              !.bidirectional = bidirectional,
                              !.reversed = reversed]

\* the first position j >= i that is past the end or holds a character of stop
FindChar(input, i, stop) ==
  LET cand == {j \in i..Len(input) : input[j] \in stop}
  IN IF cand = {} THEN Len(input) + 1
       ELSE CHOOSE j \in cand : \A k \in cand : j <= k

\* the first position j >= i that is past the end or holds no character of keep
SkipChars(input, i, keep) ==
  LET cand == {j \in i..Len(input) : input[j] \notin keep}
  IN IF cand = {} THEN Len(input) + 1
       ELSE CHOOSE j \in cand : \A k \in cand : j <= k

\* the loop of the rectangle, diamond and ellipse literals: nested delimiters
\* are counted and the literal closes at depth 0
RECURSIVE ScanBalanced(_, _, _, _, _, _)
ScanBalanced(input, i, depth, label, open, close) ==
  IF i <= Len(input) /\ depth > 0
    THEN LET d2 == IF input[i] = open THEN depth + 1
                   ELSE IF input[i] = close THEN depth - 1 ELSE depth
             l2 == IF d2 > 0 THEN Append(label, input[i]) ELSE label
         IN ScanBalanced(input, i + 1, d2, l2, open, close)
    ELSE [i |-> i, label |-> label]

\* the loop of the quoted label: a backslash takes the next character as is
RECURSIVE ScanQuoted(_, _, _)
ScanQuoted(input, i, label) ==
  IF i <= Len(input) /\ input[i] # "\""
    THEN IF input[i] = "\\" /\ i + 1 <= Len(input)
           THEN ScanQuoted(input, i + 2, Append(label, input[i + 1]))
           ELSE ScanQuoted(input, i + 1, Append(label, input[i]))
    ELSE [i |-> i, label |-> label]

\* dims.match(/^(\d+)\s*[xX]\s*(\d+)$/): the two numbers, or None
MatchDims(dims) ==
  LET d1 == LeadingDigits(dims)
      r1 == TrimStart(Slice(dims, Len(d1) + 1, Len(dims)))
      r2 == IF r1 = << >> THEN << >> ELSE TrimStart(Tail(r1))
      d2 == LeadingDigits(r2)
  IN IF /\ d1 # << >>
        /\ r1 # << >>
        /\ Head(r1) \in {"x", "X"}
        /\ d2 # << >>
        /\ Len(d2) = Len(r2)
       THEN Some(<< DigitsValue(d1, 0), DigitsValue(d2, 0) >>)
       ELSE None

decorateWord == << "d", "e", "c", "o", "r", "a", "t", "e" >>
topRight == << "t", "o", "p", "-", "r", "i", "g", "h", "t" >>

\* `![src]` or `![src](WxH)`, entered with input[i] = "!" and input[i+1] = "["
LexImage(input, i) ==
  LET j == FindChar(input, i + 2, {"]"})
      src == Slice(input, i + 2, j - 1)
      i1 == j + 1
      hasDims == i1 <= Len(input) /\ input[i1] = "("
      k == FindChar(input, i1 + 1, {")"})
      m == IF hasDims THEN MatchDims(Slice(input, i1 + 1, k - 1)) ELSE None
  IN [i |-> IF hasDims THEN k + 1 ELSE i1,
      toks |-> << [Tok("image", Trim(src)) EXCEPT
                     !.imageSrc = Trim(src),
                     !.imageWidth = IF m = None THEN None ELSE Some(m[1][1]),
                     !.imageHeight = IF m = None THEN None ELSE Some(m[1][2])] >>]

\* `@name value`, entered with input[i] = "@"; @decorate is its own token
LexDirective(input, i) ==
  LET j == SkipChars(input, i + 1, Alnum)
      directive == Slice(input, i + 1, j - 1)
      k == SkipChars(input, j, {" ", "\t"})
      m == FindChar(input, k, {"\n", "#", "@"})
      value == Slice(input, k, m - 1)
      parts == SplitWS(Trim(value), << >>)
      src == parts[1]
      anchor == IF Len(parts) >= 2 /\ parts[2] # << >> THEN parts[2] ELSE topRight
  IN [i |-> m,
      toks |-> << IF directive = decorateWord
                    THEN [Tok("decorate", src) EXCEPT !.imageSrc = src,
                                                     !.decorationAnchor = anchor]
                    ELSE Tok("directive", directive \o << " " >> \o Trim(value)) >>]

\* `[[label]]`, entered with input[i] = "[" and input[i+1] = "["
LexDatabase(input, i) ==
  LET cand == {j \in (i + 2)..Len(input) : input[j] = "]" /\ At(input, j + 1) = "]"}
      j == IF cand = {} THEN Len(input) + 1
           ELSE CHOOSE x \in cand : \A y \in cand : x <= y
  IN [i |-> j + 2,
      toks |-> << NodeTok(Trim(Slice(input, i + 2, j - 1)), "database") >>]

\* `[label]`, `{label}`, `(label)`, entered at the opening delimiter
LexShape(input, i, open, close, nodeType) ==
  LET r == ScanBalanced(input, i + 1, 1, << >>, open, close)
  IN [i |-> r.i, toks |-> << NodeTok(Trim(r.label), nodeType) >>]

\* `"text"`, entered at the opening quote
LexQuoted(input, i) ==
  LET r == ScanQuoted(input, i + 1, << >>)
  IN [i |-> r.i + 1, toks |-> << Tok("label", r.label) >>]

\* One iteration of the main loop of tokenize at position i <= Len(input):
\* the next position and the token pushed, if any.
TokenizeStep(input, i) ==
  LET c == input[i]
      c1 == At(input, i + 1)
      c2 == At(input, i + 2)
      c3 == At(input, i + 3)
  IN CASE c = " " \/ c = "\t" -> [i |-> i + 1, toks |-> << >>]
       [] c = "\n" -> [i |-> i + 1, toks |-> << Tok("newline", << "\n" >>) >>]
       [] c = "#" -> [i |-> FindChar(input, i, {"\n"}), toks |-> << >>]
       [] c = "!" /\ c1 = "[" -> LexImage(input, i)
       [] c = "@" -> LexDirective(input, i)
       [] c = "[" /\ c1 = "[" -> LexDatabase(input, i)
       [] c = "[" /\ c1 # "[" -> LexShape(input, i, "[", "]", "rectangle")
       [] c = "{" -> LexShape(input, i, "{", "}", "diamond")
       [] c = "(" -> LexShape(input, i, "(", ")", "ellipse")
       [] c = "<" /\ c1 = "-" /\ c2 = "-" /\ c3 = ">" ->
            [i |-> i + 4,
             toks |-> << ArrowTok(<< "<", "-", "-", ">" >>, TRUE, TRUE, FALSE) >>]
       [] c = "<" /\ c1 = "-" /\ c2 = ">" ->
            [i |-> i + 3,
             toks |-> << ArrowTok(<< "<", "-", ">" >>, FALSE, TRUE, FALSE) >>]
       [] c = "<" /\ c1 = "-" /\ c2 = "-" /\ c3 # ">" ->
            [i |-> i + 3,
             toks |-> << ArrowTok(<< "<", "-", "-" >>, TRUE, FALSE, TRUE) >>]
       [] c = "<" /\ c1 = "-" /\ c2 \notin {"-", ">"} ->
            [i |-> i + 2,
             toks |-> << ArrowTok(<< "<", "-" >>, FALSE, FALSE, TRUE) >>]
       [] c = "-" /\ c1 = "-" /\ c2 = ">" ->
            [i |-> i + 3,
             toks |-> << ArrowTok(<< "-", "-", ">" >>, TRUE, FALSE, FALSE) >>]
       [] c = "-" /\ c1 = ">" ->
            [i |-> i + 2,
             toks |-> << ArrowTok(<< "-", ">" >>, FALSE, FALSE, FALSE) >>]
       [] c = "\"" -> LexQuoted(input, i)
       [] OTHER -> [i |-> i + 1, toks |-> << >>]

\* tokenize(input), from position i with the tokens pushed so far
RECURSIVE TokenizeFrom(_, _, _)
TokenizeFrom(input, i, tokens) ==
  IF i <= Len(input)
    THEN LET r == TokenizeStep(input, i)
         IN TokenizeFrom(input, r.i, tokens \o r.toks)
    ELSE tokens

tokenize(input) == TokenizeFrom(input, 1, << >>)

(***************************************************************************)
(* The DSL assembler: parseDSL                                             *)
(***************************************************************************)
VARIABLES
  pc,                   \* which call is running, and where it is
  input,                \* parseDSL's argument
  tokens,               \* tokenize(input)
  i,                    \* the index of the token loop
  nodes,                \* the node registry (a Map: insertion order), as a sequence
  edges, options, images, scatter, library,
  lastNode,             \* an index into nodes; 0 is null
  pendingLabel,         \* None is null
  pendingDashed, pendingBidirectional, pendingReversed, pendingArrow,
  nextId                \* the ids nanoid has handed out

dslVars == << input, tokens, i, nodes, edges, options, images, scatter, library,
              lastNode, pendingLabel, pendingDashed, pendingBidirectional,
              pendingReversed, pendingArrow, nextId >>

\* the create command of the CLI
VARIABLES
  cliDirection,         \* --direction: None when the flag is absent
  cliSpacing,           \* --spacing: None when the flag is absent
  layoutCall            \* the options layoutGraph was called with; None before

cliVars == << cliDirection, cliSpacing, layoutCall >>

\* parseJSON
VARIABLES
  jsonInput,            \* the FlowchartInput
  jsonK,                \* the index of the running loop
  jsonNodeMap,          \* nodeMap (a Map: insertion order), as a sequence of entries
  jsonEdges,            \* the edges mapped so far
  jsonResult            \* None, Some([graph]) or Some([error])

jsonVars == << jsonInput, jsonK, jsonNodeMap, jsonEdges, jsonResult >>

\* parseDOT
VARIABLES
  dotInput,             \* the RootGraphModel fromDot returned
  explicitNodes,        \* the ids of explicitNodes (a Map: insertion order)
  allNodeIds,           \* allNodeIds (a Set: insertion order), as a sequence
  dotNodeMap,           \* nodeMap, as a sequence of entries
  dotEdges,
  dotResult             \* None or Some(graph)

dotVars == << dotInput, explicitNodes, allNodeIds, dotNodeMap, dotEdges, dotResult >>

\* generateExcalidraw
VARIABLES
  graph,                \* the LayoutedGraph
  readable,             \* the image files that exist and can be read
  nodeBoundElements,    \* node id -> bound elements, as a sequence of entries
  elements, files,
  genResult             \* None or Some(the ExcalidrawFile)

genVars == << graph, readable, nodeBoundElements, elements, files, genResult >>

\* the programmatic API: createFlowchartFromDSL / createFlowchartFromJSON
VARIABLES
  apiPc,                \* where each call is: "idle", "layout", "generate", "done"
  apiGraph,             \* the layouted graph of each call
  apiIndices,           \* the index values the elements of each call got, in order
  indexCounter,         \* the element-ordering counter of the element factory
  jsThread              \* the call that is running synchronous code; 0 if none

apiVars == << apiPc, apiGraph, apiIndices, indexCounter, jsThread >>

\* layoutGraph, and the placing of scatter images on its canvas
VARIABLES
  layPc,                \* "start", "await", "resolved", "rejected", "returned"
  layGraph,             \* the FlowchartGraph
  layoutResult,         \* what elk.layout resolved to; None before
  layResult,            \* the LayoutedGraph; None before
  scatterPlaced         \* the scatter images placed so far

layVars == << layPc, layGraph, layoutResult, layResult, scatterPlaced >>

\* what one process keeps from one parse to the next
VARIABLES
  defaultLayoutOptions, \* the object DEFAULT_LAYOUT_OPTIONS of types/dsl
  parsed                \* the parses that have returned: parser, input, graph

procVars == << defaultLayoutOptions, parsed >>

\* the exporter: convertToSVG and ensureDOMPolyfill
VARIABLES
  svgPc,                \* where each call of convertToSVG is
  capturedAtLoad,       \* the exporter restores the console.error of module load
  polyfillApplied,      \* the flag of the polyfill module
  installs,             \* how often the polyfill has been installed
  consoleError,         \* console.error: 0 the native one, p the patch of call p
  originalError         \* what each call puts back when it settles

svgVars == << svgPc, capturedAtLoad, polyfillApplied, installs, consoleError,
              originalError >>

\* one call of a function of the exporter, of the layout or of the lexer
VARIABLES
  args,                 \* the arguments of the call
  result                \* what the call has returned; None before

callVars == << args, result >>

restVars == << apiVars, layVars, svgVars, callVars >>

laterVars == << restVars, procVars >>

nonDslVars == << cliVars, jsonVars, dotVars, genVars, laterVars >>

dirTB == << "T", "B" >>
dirBT == << "B", "T" >>
dirLR == << "L", "R" >>
dirRL == << "R", "L" >>
FlowDirections == {dirTB, dirBT, dirLR, dirRL}

DefaultNodeSpacing == 50
DefaultRankSpacing == 80
DefaultPadding == 50
DefaultScatterCount == 10

DEFAULT_LAYOUT_OPTIONS ==
  [algorithm |-> "layered", direction |-> dirTB,
   nodeSpacing |-> DefaultNodeSpacing, rankSpacing |-> DefaultRankSpacing,
   padding |-> DefaultPadding]

\* the registry key `${type}:${label}`; a node type contains no colon
\* a registry keyed by the label alone
NodeKeyLabelOnly(type, label) == label

NodeKey(type, label) == << type, ":" >> \o label

\* the position in the registry of the node with this key, 0 if there is none
NodeIndex(ns, key) ==
  IF \E k \in 1..Len(ns) : ns[k].key = key
    THEN CHOOSE k \in 1..Len(ns) : ns[k].key = key
    ELSE 0

\* getOrCreateNode: the registry afterwards, the node's position in it, and
\* whether nanoid was called
getOrCreateNode(ns, id, label, type, imageData) ==
  LET key == NodeKey(type, label)
      k == NodeIndex(ns, key)
  IN IF k = 0
       THEN [nodes |-> Append(ns, [key |-> key, id |-> id, type |-> type,
                                   label |-> label, image |-> imageData,
                                   decorations |-> << >>]),
             node |-> Len(ns) + 1, created |-> TRUE]
       ELSE [nodes |-> ns, node |-> k, created |-> FALSE]

\* buildEdgeStyle: strokeStyle is "dashed" or absent ("undefined"); an
\* arrowhead is "arrow" or "null".  The object always has keys, so the
\* function never returns undefined.
\* a style that ignores the reversed flag
buildEdgeStyleForward(dashed, bidirectional, reversed) ==
  [strokeStyle |-> IF dashed THEN "dashed" ELSE "undefined",
   startArrowhead |-> IF bidirectional THEN "arrow" ELSE "null",
   endArrowhead |-> "arrow"]

buildEdgeStyle(dashed, bidirectional, reversed) ==
  [strokeStyle |-> IF dashed THEN "dashed" ELSE "undefined",
   startArrowhead |-> IF bidirectional \/ reversed THEN "arrow" ELSE "null",
   endArrowhead |-> IF bidirectional THEN "arrow"
                    ELSE IF reversed THEN "null" ELSE "arrow"]

\* `pendingLabel || undefined`: null and the empty string give no label
LabelOrUndefined(l) == IF l = None \/ l = Some(<< >>) THEN None ELSE l

atWord == << "A", "T" >>
nearWord == << "N", "E", "A", "R" >>

\* the part of value after `src \s+ keyword \s+` (keyword matched without
\* regard to case) when src is its first n characters; None if it is not so
AfterKeyword(value, n, keyword) ==
  LET r == Slice(value, n + 1, Len(value))
      t == TrimStart(r)
      u == Slice(t, Len(keyword) + 1, Len(t))
      v == TrimStart(u)
  IN IF /\ Len(t) < Len(r)
        /\ Len(t) >= Len(keyword)
        /\ ToUpperCase(SubSeq(t, 1, Len(keyword))) = keyword
        /\ Len(v) < Len(u)
       THEN Some(v) ELSE None

\* `(\d+)\s*,\s*(\d+)$`
MatchAtTail(v) ==
  LET d1 == LeadingDigits(v)
      r1 == TrimStart(Slice(v, Len(d1) + 1, Len(v)))
      r2 == IF r1 = << >> THEN << >> ELSE TrimStart(Tail(r1))
      d2 == LeadingDigits(r2)
  IN IF /\ d1 # << >> /\ r1 # << >> /\ Head(r1) = ","
        /\ d2 # << >> /\ Len(d2) = Len(r2)
       THEN Some([x |-> DigitsValue(d1, 0), y |-> DigitsValue(d2, 0)])
       ELSE None

\* `\(([^)]+)\)(?:\s+(\S+))?$`
MatchNearTail(v) ==
  LET j == FindChar(v, 2, {")"})
      after == Slice(v, j + 1, Len(v))
      t == TrimStart(after)
  IN IF /\ v # << >> /\ Head(v) = "(" /\ j <= Len(v) /\ j >= 3
        /\ \/ after = << >>
           \/ /\ Len(t) < Len(after) /\ t # << >>
              /\ \A k \in 1..Len(t) : t[k] \notin WhiteSpace
       THEN Some([nodeLabel |-> Trim(Slice(v, 2, j - 1)),
                  anchor |-> IF t = << >> THEN None ELSE Some(t)])
       ELSE None

\* parseImageDirective: None is null.  The lazy `(.+?)` takes the shortest
\* src for which the rest of the pattern matches.
parseImageDirective(value, id) ==
  LET atN == {n \in 1..Len(value) :
                /\ AfterKeyword(value, n, atWord) # None
                /\ MatchAtTail(AfterKeyword(value, n, atWord)[1]) # None}
      nearN == {n \in 1..Len(value) :
                /\ AfterKeyword(value, n, nearWord) # None
                /\ MatchNearTail(AfterKeyword(value, n, nearWord)[1]) # None}
      Least(S) == CHOOSE n \in S : \A m \in S : n <= m
  IN IF atN # {}
       THEN LET m == MatchAtTail(AfterKeyword(value, Least(atN), atWord)[1])[1]
            IN Some([id |-> id, src |-> Trim(SubSeq(value, 1, Least(atN))),
                     position |-> [type |-> "absolute", x |-> m.x, y |-> m.y,
                                   nodeLabel |-> << >>, anchor |-> None]])
     ELSE IF nearN # {}
       THEN LET m == MatchNearTail(AfterKeyword(value, Least(nearN), nearWord)[1])[1]
            IN Some([id |-> id, src |-> Trim(SubSeq(value, 1, Least(nearN))),
                     position |-> [type |-> "near", x |-> 0, y |-> 0,
                                   nodeLabel |-> m.nodeLabel, anchor |-> m.anchor]])
     ELSE None

countWord == << "c", "o", "u", "n", "t" >>
widthWord == << "w", "i", "d", "t", "h" >>
heightWord == << "h", "e", "i", "g", "h", "t" >>

\* the loop of parseScatterDirective over parts[k..]: a number field is
\* Some(n), or None for NaN (count) and for undefined (width, height)
RECURSIVE ScatterFields(_, _, _)
ScatterFields(parts, k, cfg) ==
  IF k > Len(parts) THEN cfg
  ELSE LET kv == SplitChar(parts[k], ":", << >>)
           key == kv[1]
           hasVal == Len(kv) >= 2 /\ kv[2] # << >>
           c1 == IF key = countWord /\ hasVal
                   THEN [cfg EXCEPT !.count = ParseInt(kv[2])] ELSE cfg
           c2 == IF key = widthWord /\ hasVal
                   THEN [c1 EXCEPT !.width = ParseInt(kv[2])] ELSE c1
           c3 == IF key = heightWord /\ hasVal
                   THEN [c2 EXCEPT !.height = ParseInt(kv[2])] ELSE c2
       IN ScatterFields(parts, k + 1, c3)

\* parseScatterDirective: None is null
parseScatterDirective(value) ==
  LET parts == SplitWS(Trim(value), << >>)
  IN IF Len(parts) < 2 THEN None
       ELSE Some(ScatterFields(parts, 2,
                   [src |-> parts[1], count |-> Some(DefaultScatterCount),
                    width |-> None, height |-> None]))

directionWord == << "d", "i", "r", "e", "c", "t", "i", "o", "n" >>
spacingWord == << "s", "p", "a", "c", "i", "n", "g" >>
imageWord == << "i", "m", "a", "g", "e" >>
scatterWord == << "s", "c", "a", "t", "t", "e", "r" >>
libraryWord == << "l", "i", "b", "r", "a", "r", "y" >>
stickerWord == << "s", "t", "i", "c", "k", "e", "r" >>
stickerPrefix == << "s", "t", "i", "c", "k", "e", "r", ":" >>

\* the image a @sticker directive records, None when it records none
StickerImage(value, id) ==
  LET parts == SplitWS(Trim(value), << >>)
      stickerName == parts[1]
      restValue == JoinSpace(Tail(parts))
  IN IF stickerName = << >> THEN None
     ELSE IF Includes(restValue, << "a", "t" >>) \/ Includes(restValue, << "n", "e", "a", "r" >>)
       THEN parseImageDirective(stickerPrefix \o stickerName \o << " " >> \o restValue, id)
     ELSE Some([id |-> id, src |-> stickerPrefix \o stickerName,
                position |-> [type |-> "absolute", x |-> 0, y |-> 0,
                              nodeLabel |-> << >>, anchor |-> None]])

\* the token loop has a token of this type to consume
AtToken(type) == pc = "parse" /\ i <= Len(tokens) /\ tokens[i].type = type

pendingVars == << pendingLabel, pendingDashed, pendingBidirectional,
                 pendingReversed, pendingArrow >>

\* parseDSL up to the token loop: tokenize and the initial locals
Tokenize ==
  /\ pc = "start"
  /\ pc' = "parse"
  /\ tokens' = tokenize(input)
  /\ i' = 1
  /\ nodes' = << >>
  /\ edges' = << >>
  /\ options' = defaultLayoutOptions
  /\ images' = << >>
  /\ scatter' = << >>
  /\ library' = None
  /\ lastNode' = 0
  /\ pendingLabel' = None
  /\ pendingDashed' = FALSE
  /\ pendingBidirectional' = FALSE
  /\ pendingReversed' = FALSE
  /\ pendingArrow' = FALSE
  /\ UNCHANGED << input, nextId >>
  /\ UNCHANGED nonDslVars

\* a newline that keeps the pending arrow and its flags
ParseNewlineKeepArrow ==
  /\ AtToken("newline")
  /\ lastNode' = 0
  /\ pendingLabel' = None
  /\ i' = i + 1
  /\ UNCHANGED << pc, input, tokens, nodes, edges, options, images, scatter,
                  library, nextId, pendingDashed, pendingBidirectional,
                  pendingReversed, pendingArrow >>
  /\ UNCHANGED nonDslVars

\* token.type === 'newline'
ParseNewline ==
  /\ AtToken("newline")
  /\ lastNode' = 0
  /\ pendingLabel' = None
  /\ pendingDashed' = FALSE
  /\ pendingBidirectional' = FALSE
  /\ pendingReversed' = FALSE
  /\ pendingArrow' = FALSE
  /\ i' = i + 1
  /\ UNCHANGED << pc, input, tokens, nodes, edges, options, images, scatter,
                  library, nextId >>
  /\ UNCHANGED nonDslVars

\* a directive that writes the options of the module as well
ParseDirectiveOnDefaults ==
  /\ AtToken("directive")
  /\ LET parts == SplitChar(tokens[i].value, " ", << >>)
         directive == parts[1]
         value == JoinSpace(Tail(parts))
         dir == ToUpperCase(value)
         spacing == ParseInt(value)
         img == IF directive = imageWord THEN parseImageDirective(value, nextId)
                ELSE IF directive = stickerWord THEN StickerImage(value, nextId)
                ELSE None
         cfg == IF directive = scatterWord THEN parseScatterDirective(value) ELSE None
     IN /\ options' =
             IF directive = directionWord /\ dir \in FlowDirections
               THEN [options EXCEPT !.direction = dir]
             ELSE IF directive = spacingWord /\ spacing # None
               THEN [options EXCEPT !.nodeSpacing = spacing[1]]
             ELSE options
        /\ images' = images \o img
        /\ nextId' = nextId + Len(img)
        /\ scatter' = scatter \o cfg
        /\ library' = IF directive = libraryWord THEN Some(Trim(value)) ELSE library
  /\ defaultLayoutOptions' = options'
  /\ i' = i + 1
  /\ UNCHANGED << pc, input, tokens, nodes, edges, lastNode, pendingVars >>
  /\ UNCHANGED << cliVars, jsonVars, dotVars, genVars, restVars, parsed >>

\* token.type === 'directive'
ParseDirective ==
  /\ AtToken("directive")
  /\ LET parts == SplitChar(tokens[i].value, " ", << >>)
         directive == parts[1]
         value == JoinSpace(Tail(parts))
         dir == ToUpperCase(value)
         spacing == ParseInt(value)
         img == IF directive = imageWord THEN parseImageDirective(value, nextId)
                ELSE IF directive = stickerWord THEN StickerImage(value, nextId)
                ELSE None
         cfg == IF directive = scatterWord THEN parseScatterDirective(value) ELSE None
     IN /\ options' =
             IF directive = directionWord /\ dir \in FlowDirections
               THEN [options EXCEPT !.direction = dir]
             ELSE IF directive = spacingWord /\ spacing # None
               THEN [options EXCEPT !.nodeSpacing = spacing[1]]
             ELSE options
        /\ images' = images \o img
        /\ nextId' = nextId + Len(img)
        /\ scatter' = scatter \o cfg
        /\ library' = IF directive = libraryWord THEN Some(Trim(value)) ELSE library
  /\ i' = i + 1
  /\ UNCHANGED << pc, input, tokens, nodes, edges, lastNode, pendingVars >>
  /\ UNCHANGED nonDslVars

\* a literal step that turns the edge of a reverse connector around
LiteralStepTurning(label, type, imageData) ==
  LET r == getOrCreateNode(nodes, nextId, label, type, imageData)
      idAfterNode == IF r.created THEN nextId + 1 ELSE nextId
      commit == lastNode # 0 /\ pendingArrow
  IN /\ nodes' = r.nodes
     /\ edges' = IF commit
                   THEN Append(edges,
                          [id |-> idAfterNode,
                           source |-> IF pendingReversed THEN r.nodes[r.node].id
                                      ELSE r.nodes[lastNode].id,
                           target |-> IF pendingReversed THEN r.nodes[lastNode].id
                                      ELSE r.nodes[r.node].id,
                           label |-> LabelOrUndefined(pendingLabel),
                           style |-> buildEdgeStyle(pendingDashed,
                                       pendingBidirectional, pendingReversed)])
                   ELSE edges
     /\ nextId' = IF commit THEN idAfterNode + 1 ELSE idAfterNode
     /\ pendingLabel' = IF commit THEN None ELSE pendingLabel
     /\ pendingDashed' = IF commit THEN FALSE ELSE pendingDashed
     /\ pendingBidirectional' = IF commit THEN FALSE ELSE pendingBidirectional
     /\ pendingReversed' = IF commit THEN FALSE ELSE pendingReversed
     /\ pendingArrow' = IF commit THEN FALSE ELSE pendingArrow
     /\ lastNode' = r.node
     /\ i' = i + 1
     /\ UNCHANGED << pc, input, tokens, options, images, scatter, library >>
     /\ UNCHANGED nonDslVars

\* the shared tail of the image and node branches: register the literal's
\* node, commit the pending edge if lastNode && pendingArrow, move lastNode
LiteralStep(label, type, imageData) ==
  LET r == getOrCreateNode(nodes, nextId, label, type, imageData)
      idAfterNode == IF r.created THEN nextId + 1 ELSE nextId
      commit == lastNode # 0 /\ pendingArrow
  IN /\ nodes' = r.nodes
     /\ edges' = IF commit
                   THEN Append(edges,
                          [id |-> idAfterNode,
                           source |-> r.nodes[lastNode].id,
                           target |-> r.nodes[r.node].id,
                           label |-> LabelOrUndefined(pendingLabel),
                           style |-> buildEdgeStyle(pendingDashed,
                                       pendingBidirectional, pendingReversed)])
                   ELSE edges
     /\ nextId' = IF commit THEN idAfterNode + 1 ELSE idAfterNode
     /\ pendingLabel' = IF commit THEN None ELSE pendingLabel
     /\ pendingDashed' = IF commit THEN FALSE ELSE pendingDashed
     /\ pendingBidirectional' = IF commit THEN FALSE ELSE pendingBidirectional
     /\ pendingReversed' = IF commit THEN FALSE ELSE pendingReversed
     /\ pendingArrow' = IF commit THEN FALSE ELSE pendingArrow
     /\ lastNode' = r.node
     /\ i' = i + 1
     /\ UNCHANGED << pc, input, tokens, options, images, scatter, library >>
     /\ UNCHANGED nonDslVars

\* token.type === 'image'
ParseImage ==
  /\ AtToken("image")
  /\ LiteralStep(tokens[i].value, "image",
                 Some([src |-> tokens[i].imageSrc, width |-> tokens[i].imageWidth,
                       height |-> tokens[i].imageHeight]))

\* a decoration that goes to the node created last
ParseDecorateNewest ==
  /\ AtToken("decorate")
  /\ nodes' = IF nodes # << >>
                THEN [nodes EXCEPT ![Len(nodes)].decorations =
                        Append(@, [src |-> tokens[i].imageSrc,
                                   anchor |-> IF tokens[i].decorationAnchor = << >>
                                                THEN topRight
                                                ELSE tokens[i].decorationAnchor])]
                ELSE nodes
  /\ i' = i + 1
  /\ UNCHANGED << pc, input, tokens, edges, options, images, scatter, library,
                  lastNode, pendingVars, nextId >>
  /\ UNCHANGED nonDslVars

\* token.type === 'decorate'
ParseDecorate ==
  /\ AtToken("decorate")
  /\ nodes' = IF lastNode # 0
                THEN [nodes EXCEPT ![lastNode].decorations =
                        Append(@, [src |-> tokens[i].imageSrc,
                                   anchor |-> IF tokens[i].decorationAnchor = << >>
                                                THEN topRight
                                                ELSE tokens[i].decorationAnchor])]
                ELSE nodes
  /\ i' = i + 1
  /\ UNCHANGED << pc, input, tokens, edges, options, images, scatter, library,
                  lastNode, pendingVars, nextId >>
  /\ UNCHANGED nonDslVars

\* token.type === 'node'
ParseNode ==
  /\ AtToken("node")
  /\ LiteralStep(tokens[i].value, tokens[i].nodeType, None)

\* token.type === 'arrow'
ParseArrow ==
  /\ AtToken("arrow")
  /\ pendingDashed' = tokens[i].dashed
  /\ pendingBidirectional' = tokens[i].bidirectional
  /\ pendingReversed' = tokens[i].reversed
  /\ pendingArrow' = TRUE
  /\ i' = i + 1
  /\ UNCHANGED << pc, input, tokens, nodes, edges, options, images, scatter,
                  library, lastNode, pendingLabel, nextId >>
  /\ UNCHANGED nonDslVars

\* token.type === 'label'
ParseLabel ==
  /\ AtToken("label")
  /\ pendingLabel' = Some(tokens[i].value)
  /\ i' = i + 1
  /\ UNCHANGED << pc, input, tokens, nodes, edges, options, images, scatter,
                  library, lastNode, pendingDashed, pendingBidirectional,
                  pendingReversed, pendingArrow, nextId >>
  /\ UNCHANGED nonDslVars

\* the end of the token loop: the FlowchartGraph is returned; an empty
\* library string is falsy and is left out
ReturnGraph ==
  /\ pc = "parse"
  /\ i > Len(tokens)
  /\ pc' = "parsed"
  /\ library' = IF library = Some(<< >>) THEN None ELSE library
  /\ UNCHANGED << input, tokens, i, nodes, edges, options, images, scatter,
                  lastNode, pendingVars, nextId >>
  /\ UNCHANGED nonDslVars

parseDSL ==
  \/ Tokenize
  \/ ParseNewline
  \/ ParseDirective
  \/ ParseImage
  \/ ParseDecorate
  \/ ParseNode
  \/ ParseArrow
  \/ ParseLabel
  \/ ReturnGraph

\* the state of the assembler before parseDSL is called
DslIdle ==
  /\ tokens = << >>
  /\ i = 0
  /\ nodes = << >>
  /\ edges = << >>
  /\ options = DEFAULT_LAYOUT_OPTIONS
  /\ images = << >>
  /\ scatter = << >>
  /\ library = None
  /\ lastNode = 0
  /\ pendingLabel = None
  /\ pendingDashed = FALSE
  /\ pendingBidirectional = FALSE
  /\ pendingReversed = FALSE
  /\ pendingArrow = FALSE
  /\ nextId = 1

(***************************************************************************)
(* The create command: parse, apply the CLI options, lay out               *)
(***************************************************************************)
\* .option('-s, --spacing <n>', ..., '50'): the value of options.spacing when
\* the flag is absent
CliSpacingDefault == << "5", "0" >>

\* an empty string is falsy
Truthy(opt) == opt # None /\ opt # Some(<< >>)

\* // Apply CLI options
ApplyCliOptions ==
  /\ pc = "parsed"
  /\ pc' = "applied"
  /\ LET dir == IF Truthy(cliDirection) THEN ToUpperCase(cliDirection[1]) ELSE << >>
         withDir == IF Truthy(cliDirection) /\ dir \in FlowDirections
                      THEN [options EXCEPT !.direction = dir]
                      ELSE options
         optSpacing == IF cliSpacing = None THEN Some(CliSpacingDefault) ELSE cliSpacing
         spacing == IF Truthy(optSpacing) THEN ParseInt(optSpacing[1]) ELSE None
     IN options' = IF spacing # None
                     THEN [withDir EXCEPT !.nodeSpacing = spacing[1]]
                     ELSE withDir
  /\ UNCHANGED << input, tokens, i, nodes, edges, images, scatter, library,
                  lastNode, pendingVars, nextId >>
  /\ UNCHANGED << cliVars, jsonVars, dotVars, genVars,
                  laterVars >>

\* layoutGraph(graph): the direction and the node spacing ELK is given
LayoutGraph ==
  /\ pc = "applied"
  /\ pc' = "layouted"
  /\ layoutCall' = Some([direction |-> options.direction,
                         nodeSpacing |-> options.nodeSpacing])
  /\ UNCHANGED << dslVars, cliDirection, cliSpacing, jsonVars, dotVars, genVars,
                  laterVars >>

CliIdle ==
  /\ cliDirection = None
  /\ cliSpacing = None
  /\ layoutCall = None

(***************************************************************************)
(* Maps and Sets of JavaScript: they keep the order of insertion           *)
(***************************************************************************)
\* the index of key in a Map held as a sequence of [key, value]; 0 if absent
MapIndex(m, key) ==
  IF \E k \in 1..Len(m) : m[k].key = key
    THEN CHOOSE k \in 1..Len(m) : m[k].key = key
    ELSE 0

MapHas(m, key) == MapIndex(m, key) # 0

\* Map.get: None is undefined
MapGet(m, key) == IF MapHas(m, key) THEN Some(m[MapIndex(m, key)].value) ELSE None

\* Map.set: a key that is there keeps its place and takes the value
MapSet(m, key, value) ==
  IF MapHas(m, key)
    THEN [m EXCEPT ![MapIndex(m, key)].value = value]
    ELSE Append(m, [key |-> key, value |-> value])

MapValues(m) == [k \in 1..Len(m) |-> m[k].value]

MapKeys(m) == [k \in 1..Len(m) |-> m[k].key]

\* Set.add on a Set held as a sequence without repetition
SetAdd(set, x) ==
  IF \E k \in 1..Len(set) : set[k] = x THEN set ELSE Append(set, x)

\* the n-th id nanoid hands out: no input id starts with #
Nanoid(n) == << "#", ToString(n) >>

(***************************************************************************)
(* parseJSON                                                               *)
(***************************************************************************)
isValidNodeType(type) ==
  type \in {"rectangle", "diamond", "ellipse", "database", "image"}

\* // Process nodes: the state of nodeMap and of nanoid after the nodes from k on
RECURSIVE JsonNodes(_, _, _, _)
JsonNodes(ns, k, map, id) ==
  IF k > Len(ns) THEN [map |-> map, nextId |-> id]
  ELSE LET nodeInput == ns[k]
           fresh == nodeInput.id = << >>
           node == [id |-> IF fresh THEN Nanoid(id) ELSE nodeInput.id,
                    type |-> IF isValidNodeType(nodeInput.type)
                               THEN nodeInput.type ELSE "rectangle"]
       IN JsonNodes(ns, k + 1, MapSet(map, nodeInput.id, node),
                    IF fresh THEN id + 1 ELSE id)

unknownSource == "Edge references unknown source node: "
unknownTarget == "Edge references unknown target node: "

\* what parseJSON hands back: a graph, or an Error with a message made of a
\* fixed text and an id
\* { ...DEFAULT_LAYOUT_OPTIONS, ...input.options }: the options of the input
\* are None, or give a direction
MergeOptions(defaults, inputOptions) ==
  IF inputOptions = None THEN defaults
  ELSE [defaults EXCEPT !.direction = inputOptions[1].direction]

JsonGraph(ns, es, opts) == [thrown |-> FALSE, text |-> "", id |-> << >>,
                            nodes |-> ns, edges |-> es,
                            options |-> opts]

JsonError(text, id) == [thrown |-> TRUE, text |-> text, id |-> id,
                        nodes |-> << >>, edges |-> << >>,
                        options |-> DEFAULT_LAYOUT_OPTIONS]

\* for (const nodeInput of input.nodes) ...
JsonProcessNodes ==
  /\ pc = "json_nodes"
  /\ pc' = "json_edges"
  /\ LET r == JsonNodes(jsonInput.nodes, 1, << >>, nextId)
     IN /\ jsonNodeMap' = r.map
        /\ nextId' = r.nextId
  /\ jsonK' = 1
  /\ UNCHANGED << jsonInput, jsonEdges, jsonResult >>
  /\ UNCHANGED << input, tokens, i, nodes, edges, options, images, scatter,
                  library, lastNode, pendingVars, cliVars, dotVars, genVars,
                  laterVars >>

\* a mapping of the edges that does not look the endpoints up
JsonProcessEdgeUnchecked ==
  /\ pc = "json_edges"
  /\ jsonK <= Len(jsonInput.edges)
  /\ jsonEdges' = Append(jsonEdges, [id |-> Nanoid(nextId),
                                     source |-> jsonInput.edges[jsonK].from,
                                     target |-> jsonInput.edges[jsonK].to])
  /\ nextId' = nextId + 1
  /\ jsonK' = jsonK + 1
  /\ UNCHANGED << pc, jsonResult, jsonInput, jsonNodeMap >>
  /\ UNCHANGED << input, tokens, i, nodes, edges, options, images, scatter,
                  library, lastNode, pendingVars, cliVars, dotVars, genVars,
                  laterVars >>

\* input.edges.map((edgeInput) => ...): one call of the callback
JsonProcessEdge ==
  /\ pc = "json_edges"
  /\ jsonK <= Len(jsonInput.edges)
  /\ LET edgeInput == jsonInput.edges[jsonK]
         sourceNode == MapGet(jsonNodeMap, edgeInput.from)
         targetNode == MapGet(jsonNodeMap, edgeInput.to)
     IN IF sourceNode = None
          THEN /\ pc' = "json_thrown"
               /\ jsonResult' = Some(JsonError(unknownSource, edgeInput.from))
               /\ UNCHANGED << jsonEdges, nextId, jsonK >>
        ELSE IF targetNode = None
          THEN /\ pc' = "json_thrown"
               /\ jsonResult' = Some(JsonError(unknownTarget, edgeInput.to))
               /\ UNCHANGED << jsonEdges, nextId, jsonK >>
        ELSE /\ jsonEdges' = Append(jsonEdges, [id |-> Nanoid(nextId),
                                                source |-> sourceNode[1].id,
                                                target |-> targetNode[1].id])
             /\ nextId' = nextId + 1
             /\ jsonK' = jsonK + 1
             /\ UNCHANGED << pc, jsonResult >>
  /\ UNCHANGED << jsonInput, jsonNodeMap >>
  /\ UNCHANGED << input, tokens, i, nodes, edges, options, images, scatter,
                  library, lastNode, pendingVars, cliVars, dotVars, genVars,
                  laterVars >>

\* return { nodes: Array.from(nodeMap.values()), edges, options }
JsonReturn ==
  /\ pc = "json_edges"
  /\ jsonK > Len(jsonInput.edges)
  /\ pc' = "json_returned"
  /\ jsonResult' = Some(JsonGraph(MapValues(jsonNodeMap), jsonEdges,
                                  MergeOptions(defaultLayoutOptions, jsonInput.options)))
  /\ UNCHANGED << jsonInput, jsonK, jsonNodeMap, jsonEdges >>
  /\ UNCHANGED << dslVars, cliVars, dotVars, genVars,
                  laterVars >>

parseJSON ==
  \/ JsonProcessNodes
  \/ JsonProcessEdge
  \/ JsonReturn

JsonIdle ==
  /\ jsonInput = [nodes |-> << >>, edges |-> << >>, options |-> None]
  /\ jsonK = 0
  /\ jsonNodeMap = << >>
  /\ jsonEdges = << >>
  /\ jsonResult = None

(***************************************************************************)
(* parseDOT, on the model fromDot builds                                   *)
(*                                                                         *)
(* A graph is [nodes, edges, subgraphs]; an edge is the sequence of its    *)
(* targets; a target is a node reference [id |-> Some(id), group |-> <<>>] *)
(* or a group of node references `{ b c }`, an array that has no id:       *)
(* [id |-> None, group |-> ids].  Attributes are left out: every node is a *)
(* rectangle labelled with its id.                                         *)
(***************************************************************************)
NodeRef(id) == [id |-> Some(id), group |-> << >>]
NodeGroup(ids) == [id |-> None, group |-> ids]

\* an edge statement: its targets and its attributes, None for one not given
EdgeStatement(targets, label, color, style) ==
  [targets |-> targets,
   attributes |-> [label |-> label, color |-> color, style |-> style]]

\* an edge statement without attributes
PlainEdge(targets) == EdgeStatement(targets, None, None, None)

dashedWord == << "d", "a", "s", "h", "e", "d" >>
dottedWord == << "d", "o", "t", "t", "e", "d" >>

\* styleAttr.split(',').map((s) => s.trim().toLowerCase()).includes(value)
hasStyleValue(styleAttr, value) ==
  LET styles == SplitChar(styleAttr, ",", << >>)
  IN \E k \in 1..Len(styles) : ToLowerCase(Trim(styles[k])) = ToLowerCase(value)

\* extractEdgeStyle: undefined (None) when neither a colour nor a stroke is set
extractEdgeStyle(edge) ==
  LET color == edge.attributes.color
      styleAttr == edge.attributes.style
      stroke == IF Truthy(styleAttr)
                  THEN IF hasStyleValue(styleAttr[1], dashedWord) THEN Some(dashedWord)
                       ELSE IF hasStyleValue(styleAttr[1], dottedWord) THEN Some(dottedWord)
                       ELSE None
                  ELSE None
      hasStyle == Truthy(color) \/ stroke # None
  IN IF hasStyle
       THEN Some([strokeColor |-> IF Truthy(color) THEN color ELSE None,
                  strokeStyle |-> stroke])
       ELSE None

\* null for a target that has no string id
getNodeIdFromTarget(target) == target.id

\* `if (id)`, `!sourceId`: null and the empty string are falsy
TruthyId(id) == id # None /\ id # Some(<< >>)

RECURSIVE AddNodes(_, _, _)
AddNodes(ns, k, explicit) ==
  IF k > Len(ns) THEN explicit
  ELSE AddNodes(ns, k + 1, SetAdd(explicit, ns[k]))

RECURSIVE collectExplicitNodes(_, _)
RECURSIVE ExplicitOfSubgraphs(_, _, _)
collectExplicitNodes(g, explicit) ==
  ExplicitOfSubgraphs(g.subgraphs, 1, AddNodes(g.nodes, 1, explicit))

ExplicitOfSubgraphs(subs, k, explicit) ==
  IF k > Len(subs) THEN explicit
  ELSE ExplicitOfSubgraphs(subs, k + 1, collectExplicitNodes(subs[k], explicit))

RECURSIVE AddTargets(_, _, _)
AddTargets(targets, k, ids) ==
  IF k > Len(targets) THEN ids
  ELSE LET id == getNodeIdFromTarget(targets[k])
       IN AddTargets(targets, k + 1, IF TruthyId(id) THEN SetAdd(ids, id[1]) ELSE ids)

RECURSIVE AddEdgeIds(_, _, _)
AddEdgeIds(es, k, ids) ==
  IF k > Len(es) THEN ids
  ELSE AddEdgeIds(es, k + 1, AddTargets(es[k].targets, 1, ids))

RECURSIVE collectNodeIdsFromEdges(_, _)
RECURSIVE IdsOfSubgraphs(_, _, _)
collectNodeIdsFromEdges(g, ids) ==
  IdsOfSubgraphs(g.subgraphs, 1, AddEdgeIds(g.edges, 1, ids))

IdsOfSubgraphs(subs, k, ids) ==
  IF k > Len(subs) THEN ids
  ELSE IdsOfSubgraphs(subs, k + 1, collectNodeIdsFromEdges(subs[k], ids))

\* the chain of one edge statement from position k on: acc is [edges, nextId]
RECURSIVE EdgeChain(_, _, _, _)
EdgeChain(edge, k, map, acc) ==
  LET targets == edge.targets
  IN
  IF k > Len(targets) - 1 THEN acc
  ELSE LET sourceId == getNodeIdFromTarget(targets[k])
           targetId == getNodeIdFromTarget(targets[k + 1])
           skip == \/ ~TruthyId(sourceId) \/ ~TruthyId(targetId)
                   \/ MapGet(map, sourceId[1]) = None
                   \/ MapGet(map, targetId[1]) = None
       IN EdgeChain(edge, k + 1, map,
            IF skip THEN acc
            ELSE [edges |-> Append(acc.edges,
                              [id |-> Nanoid(acc.nextId),
                               source |-> MapGet(map, sourceId[1])[1].id,
                               target |-> MapGet(map, targetId[1])[1].id,
                               label |-> edge.attributes.label,
                               style |-> extractEdgeStyle(edge)]),
                  nextId |-> acc.nextId + 1])

RECURSIVE EdgesOf(_, _, _, _)
EdgesOf(es, k, map, acc) ==
  IF k > Len(es) THEN acc
  ELSE EdgesOf(es, k + 1, map,
         IF Len(es[k].targets) < 2 THEN acc ELSE EdgeChain(es[k], 1, map, acc))

RECURSIVE collectEdges(_, _, _)
RECURSIVE EdgesOfSubgraphs(_, _, _, _)
collectEdges(g, map, acc) ==
  EdgesOfSubgraphs(g.subgraphs, 1, map, EdgesOf(g.edges, 1, map, acc))

EdgesOfSubgraphs(subs, k, map, acc) ==
  IF k > Len(subs) THEN acc
  ELSE EdgesOfSubgraphs(subs, k + 1, map, collectEdges(subs[k], map, acc))

\* // Step 3: a node with a fresh id for every id of allNodeIds
RECURSIVE BuildNodeMap(_, _, _, _)
BuildNodeMap(ids, k, map, id) ==
  IF k > Len(ids) THEN map
  ELSE BuildNodeMap(ids, k + 1,
         MapSet(map, ids[k], [id |-> Nanoid(id), type |-> "rectangle",
                              label |-> ids[k]]),
         id + 1)

dotOthers == << input, tokens, i, nodes, edges, options, images, scatter,
               library, lastNode, pendingVars, cliVars, jsonVars, genVars,
                  laterVars >>

\* // Step 1: Collect all explicit nodes
DotCollectExplicit ==
  /\ pc = "dot_start"
  /\ pc' = "dot_explicit"
  /\ explicitNodes' = collectExplicitNodes(dotInput, << >>)
  /\ UNCHANGED << dotInput, allNodeIds, dotNodeMap, dotEdges, dotResult, nextId >>
  /\ UNCHANGED dotOthers

\* // Step 2: Collect all node IDs referenced in edges, then the explicit ids
DotCollectIds ==
  /\ pc = "dot_explicit"
  /\ pc' = "dot_ids"
  /\ allNodeIds' = AddNodes(explicitNodes, 1, collectNodeIdsFromEdges(dotInput, << >>))
  /\ UNCHANGED << dotInput, explicitNodes, dotNodeMap, dotEdges, dotResult, nextId >>
  /\ UNCHANGED dotOthers

\* // Step 3: Build the node map
DotBuildNodeMap ==
  /\ pc = "dot_ids"
  /\ pc' = "dot_nodes"
  /\ dotNodeMap' = BuildNodeMap(allNodeIds, 1, << >>, nextId)
  /\ nextId' = nextId + Len(allNodeIds)
  /\ UNCHANGED << dotInput, explicitNodes, allNodeIds, dotEdges, dotResult >>
  /\ UNCHANGED dotOthers

\* // Step 4: Collect all edges
DotCollectEdges ==
  /\ pc = "dot_nodes"
  /\ pc' = "dot_edges"
  /\ LET r == collectEdges(dotInput, dotNodeMap, [edges |-> << >>, nextId |-> nextId])
     IN /\ dotEdges' = r.edges
        /\ nextId' = r.nextId
  /\ UNCHANGED << dotInput, explicitNodes, allNodeIds, dotNodeMap, dotResult >>
  /\ UNCHANGED dotOthers

\* mapRankDir: undefined (None) for no rankdir and for one that is no direction
mapRankDir(rankdir) ==
  IF rankdir = None \/ rankdir = Some(<< >>) THEN None
  ELSE IF ToUpperCase(rankdir[1]) \in FlowDirections THEN Some(ToUpperCase(rankdir[1]))
  ELSE None

\* const options = { ...DEFAULT_LAYOUT_OPTIONS }; if (direction) options.direction = direction
DotOptions(defaults, rankdir) ==
  LET direction == mapRankDir(rankdir)
  IN IF direction # None THEN [defaults EXCEPT !.direction = direction[1]]
     ELSE defaults

DotReturn ==
  /\ pc = "dot_edges"
  /\ pc' = "dot_returned"
  /\ dotResult' = Some([nodes |-> MapValues(dotNodeMap), edges |-> dotEdges,
                        options |-> DotOptions(defaultLayoutOptions, dotInput.rankdir)])
  /\ UNCHANGED << dotInput, explicitNodes, allNodeIds, dotNodeMap, dotEdges, nextId >>
  /\ UNCHANGED dotOthers

parseDOT ==
  \/ DotCollectExplicit
  \/ DotCollectIds
  \/ DotBuildNodeMap
  \/ DotCollectEdges
  \/ DotReturn

DotIdle ==
  /\ dotInput = [nodes |-> << >>, edges |-> << >>, subgraphs |-> << >>,
                 rankdir |-> None]
  /\ explicitNodes = << >>
  /\ allNodeIds = << >>
  /\ dotNodeMap = << >>
  /\ dotEdges = << >>
  /\ dotResult = None

(***************************************************************************)
(* generateExcalidraw                                                      *)
(*                                                                         *)
(* An element keeps what refers to other parts of the document and the     *)
(* arrowheads: [id, type, boundElements, containerId, fileId,              *)
(* startArrowhead, endArrowhead]; geometry is left out.  A field of an     *)
(* edge style is "undefined" when absent, "null" when null.                *)
(***************************************************************************)
Element(id, type, boundElements, containerId, fileId) ==
  [id |-> id, type |-> type, boundElements |-> boundElements,
   containerId |-> containerId, fileId |-> fileId,
   startArrowhead |-> "null", endArrowhead |-> "null"]

StartsWith(s, prefix) ==
  Len(s) >= Len(prefix) /\ SubSeq(s, 1, Len(prefix)) = prefix

httpPrefix == << "h", "t", "t", "p", ":", "/", "/" >>
httpsPrefix == << "h", "t", "t", "p", "s", ":", "/", "/" >>

isUrl(src) == StartsWith(src, httpPrefix) \/ StartsWith(src, httpsPrefix)

isSticker(src) == StartsWith(src, stickerPrefix)

\* createFileData with no library path: null (None) for a URL and for a file
\* that is not there or cannot be read
createFileData(src, fileId, canRead) ==
  LET resolvedSrc == IF isSticker(src)
                       THEN SubSeq(src, Len(stickerPrefix) + 1, Len(src))
                       ELSE src
  IN IF isUrl(resolvedSrc) THEN None
     ELSE IF resolvedSrc \notin canRead THEN None
     ELSE Some([id |-> fileId])

\* mapEdgeStyle: {} for no style; the two arrowhead properties otherwise
mapEdgeStyle(style) ==
  IF style = None
    THEN [startArrowhead |-> "undefined", endArrowhead |-> "undefined"]
    ELSE [startArrowhead |-> IF style[1].startArrowhead = "undefined"
                               THEN "null" ELSE style[1].startArrowhead,
          endArrowhead |-> IF style[1].endArrowhead = "undefined"
                             THEN "arrow" ELSE style[1].endArrowhead]

\* a ?? b
Nullish(a, b) == IF a \in {"undefined", "null"} THEN b ELSE a

createArrow(edge, boundElements) ==
  LET styleProps == mapEdgeStyle(edge.style)
  IN [Element(edge.id, "arrow", boundElements, None, None)
        EXCEPT !.startArrowhead = Nullish(styleProps.startArrowhead, "null"),
               !.endArrowhead = Nullish(styleProps.endArrowhead, "arrow")]

\* createRectangle, createDiamond, createEllipse: boundElements || null
createNode(node, boundElements) ==
  Element(node.id, node.type,
          IF boundElements = None \/ boundElements = Some(<< >>) THEN None
          ELSE boundElements,
          None, None)

\* createNodeLabel gives no id: the base element draws one
createNodeLabel(node, id) == Element(id, "text", None, None, None)

\* an edge label that is not bound to its arrow
createEdgeLabelUnbound(label, arrowId, id) == Element(id, "text", None, None, None)

createEdgeLabel(label, arrowId, id) == Element(id, "text", None, Some(arrowId), None)

createImageElement(node, fileId) == Element(node.id, "image", None, None, Some(fileId))

createPositionedImageElement(image, fileId) ==
  Element(image.id, "image", None, None, Some(fileId))

\* nodeMap.get(id): the last node of the graph with the id, None if there is none
NodeOf(g, id) ==
  LET ks == {k \in 1..Len(g.nodes) : g.nodes[k].id = id}
  IN IF ks = {} THEN None
     ELSE Some(g.nodes[CHOOSE k \in ks : \A m \in ks : m <= k])

\* nodeBoundElements.get(id).push(b), after a set(id, []) if the id is new
PushBound(map, id, b) ==
  MapSet(map, id, IF MapHas(map, id) THEN Append(MapGet(map, id)[1], b) ELSE << b >>)

\* // Calculate bound elements for each node (only for non-image nodes)
RECURSIVE BoundElementsOf(_, _, _)
BoundElementsOf(g, k, map) ==
  IF k > Len(g.edges) THEN map
  ELSE LET edge == g.edges[k]
           sourceNode == NodeOf(g, edge.source)
           targetNode == NodeOf(g, edge.target)
           b == [id |-> edge.id, type |-> "arrow"]
           m1 == IF sourceNode # None /\ sourceNode[1].type # "image"
                   THEN PushBound(map, edge.source, b) ELSE map
           m2 == IF targetNode # None /\ targetNode[1].type # "image"
                   THEN PushBound(m1, edge.target, b) ELSE m1
       IN BoundElementsOf(g, k + 1, m2)

\* an image element and a file entry whether or not the file can be read
PlaceImageAlways(acc, src, kind, id, canRead) ==
  LET fileId == Nanoid(acc.nextId)
      fresh == kind \in {"scatter", "decoration"}
      imageId == IF fresh THEN Nanoid(acc.nextId + 1) ELSE id
      el == createPositionedImageElement([id |-> imageId], fileId)
  IN [elements |-> IF kind = "scatter" THEN << el >> \o acc.elements
                   ELSE Append(acc.elements, el),
      files |-> acc.files \cup {fileId},
      nextId |-> IF fresh THEN acc.nextId + 2 ELSE acc.nextId + 1]

\* scatter images pushed behind the other elements, not in front of them
PlaceImageBehind(acc, src, kind, id, canRead) ==
  LET fileId == Nanoid(acc.nextId)
      fresh == kind \in {"scatter", "decoration"}
      imageId == IF fresh THEN Nanoid(acc.nextId + 1) ELSE id
      fileData == createFileData(src, fileId, canRead)
      el == createPositionedImageElement([id |-> imageId], fileId)
  IN IF fileData = None
       THEN [acc EXCEPT !.nextId = IF kind = "scatter" THEN @ + 2 ELSE @ + 1]
       ELSE [elements |-> Append(acc.elements, el),
             files |-> acc.files \cup {fileId},
             nextId |-> IF fresh THEN acc.nextId + 2 ELSE acc.nextId + 1]

\* one image with its file, if the file can be read: acc is
\* [elements, files, nextId].  The file id is drawn first; the image of a
\* node or of a directive has its id, a scatter image draws one in any case
\* and goes in front (unshift), a decoration draws one once its file is read.
PlaceImage(acc, src, kind, id, canRead) ==
  LET fileId == Nanoid(acc.nextId)
      fresh == kind \in {"scatter", "decoration"}
      imageId == IF fresh THEN Nanoid(acc.nextId + 1) ELSE id
      fileData == createFileData(src, fileId, canRead)
      el == createPositionedImageElement([id |-> imageId], fileId)
  IN IF fileData = None
       THEN [acc EXCEPT !.nextId = IF kind = "scatter" THEN @ + 2 ELSE @ + 1]
       ELSE [elements |-> IF kind = "scatter" THEN << el >> \o acc.elements
                          ELSE Append(acc.elements, el),
             files |-> acc.files \cup {fileId},
             nextId |-> IF fresh THEN acc.nextId + 2 ELSE acc.nextId + 1]

RECURSIVE Decorate(_, _, _, _)
Decorate(decorations, k, acc, canRead) ==
  IF k > Len(decorations) THEN acc
  ELSE Decorate(decorations, k + 1,
                PlaceImage(acc, decorations[k].src, "decoration", << >>, canRead),
                canRead)

\* // Create elements for nodes
RECURSIVE NodeElements(_, _, _, _, _)
NodeElements(g, k, bound, acc, canRead) ==
  IF k > Len(g.nodes) THEN acc
  ELSE LET node == g.nodes[k]
       IN IF node.type = "image" /\ node.image # None
            THEN NodeElements(g, k + 1, bound,
                   PlaceImage(acc, node.image[1], "node", node.id, canRead),
                   canRead)
            ELSE LET shape == createNode(node, MapGet(bound, node.id))
                     text == createNodeLabel(node, Nanoid(acc.nextId))
                     withShape == [acc EXCEPT !.elements = acc.elements \o << shape, text >>,
                                              !.nextId = acc.nextId + 1]
                 IN NodeElements(g, k + 1, bound,
                                 Decorate(node.decorations, 1, withShape, canRead),
                                 canRead)

\* // Create arrow elements for edges
RECURSIVE EdgeElements(_, _, _)
EdgeElements(g, k, els) ==
  IF k > Len(g.edges) THEN els
  ELSE LET edge == g.edges[k]
           textId == << "t", "e", "x", "t", "-" >> \o edge.id
           labelled == edge.label # None /\ edge.label # Some(<< >>)
       IN IF NodeOf(g, edge.source) = None \/ NodeOf(g, edge.target) = None
            THEN EdgeElements(g, k + 1, els)
            ELSE EdgeElements(g, k + 1,
                   els \o << createArrow(edge,
                               IF labelled
                                 THEN Some(<< [id |-> textId, type |-> "text"] >>)
                                 ELSE None) >>
                       \o (IF labelled
                             THEN << createEdgeLabel(edge.label[1], edge.id, textId) >>
                             ELSE << >>))

\* // Create positioned images (from @image directives)
RECURSIVE PositionedImages(_, _, _, _)
PositionedImages(imgs, k, acc, canRead) ==
  IF k > Len(imgs) THEN acc
  ELSE PositionedImages(imgs, k + 1,
         PlaceImage(acc, imgs[k].src, "positioned", imgs[k].id, canRead), canRead)

\* generateScatteredImages: count images of each config, each put in front
RECURSIVE ScatterOne(_, _, _, _)
ScatterOne(config, n, acc, canRead) ==
  IF n >= config.count THEN acc
  ELSE ScatterOne(config, n + 1,
                  PlaceImage(acc, config.src, "scatter", << >>, canRead), canRead)

RECURSIVE generateScatteredImages(_, _, _, _)
generateScatteredImages(configs, k, acc, canRead) ==
  IF k > Len(configs) THEN acc
  ELSE generateScatteredImages(configs, k + 1,
                               ScatterOne(configs[k], 0, acc, canRead), canRead)

genOthers == << input, tokens, i, nodes, edges, options, images, scatter,
               library, lastNode, pendingVars, cliVars, jsonVars, dotVars,
                  laterVars >>

GenAcc == [elements |-> elements, files |-> files, nextId |-> nextId]

GenBindings ==
  /\ pc = "gen_start"
  /\ pc' = "gen_nodes"
  /\ nodeBoundElements' = BoundElementsOf(graph, 1, << >>)
  /\ UNCHANGED << graph, readable, elements, files, genResult, nextId >>
  /\ UNCHANGED genOthers

GenNodes ==
  /\ pc = "gen_nodes"
  /\ pc' = "gen_edges"
  /\ LET r == NodeElements(graph, 1, nodeBoundElements, GenAcc, readable)
     IN /\ elements' = r.elements
        /\ files' = r.files
        /\ nextId' = r.nextId
  /\ UNCHANGED << graph, readable, nodeBoundElements, genResult >>
  /\ UNCHANGED genOthers

GenEdges ==
  /\ pc = "gen_edges"
  /\ pc' = "gen_images"
  /\ elements' = EdgeElements(graph, 1, elements)
  /\ UNCHANGED << graph, readable, nodeBoundElements, files, genResult, nextId >>
  /\ UNCHANGED genOthers

GenImages ==
  /\ pc = "gen_images"
  /\ pc' = "gen_scatter"
  /\ LET r == PositionedImages(graph.images, 1, GenAcc, readable)
     IN /\ elements' = r.elements
        /\ files' = r.files
        /\ nextId' = r.nextId
  /\ UNCHANGED << graph, readable, nodeBoundElements, genResult >>
  /\ UNCHANGED genOthers

GenScatter ==
  /\ pc = "gen_scatter"
  /\ pc' = "gen_return"
  /\ LET r == generateScatteredImages(graph.scatter, 1, GenAcc, readable)
     IN /\ elements' = r.elements
        /\ files' = r.files
        /\ nextId' = r.nextId
  /\ UNCHANGED << graph, readable, nodeBoundElements, genResult >>
  /\ UNCHANGED genOthers

GenReturn ==
  /\ pc = "gen_return"
  /\ pc' = "gen_returned"
  /\ genResult' = Some([elements |-> elements, files |-> files])
  /\ UNCHANGED << graph, readable, nodeBoundElements, elements, files, nextId >>
  /\ UNCHANGED genOthers

generateExcalidraw ==
  \/ GenBindings
  \/ GenNodes
  \/ GenEdges
  \/ GenImages
  \/ GenScatter
  \/ GenReturn

GenIdle ==
  /\ graph = [nodes |-> << >>, edges |-> << >>, images |-> << >>, scatter |-> << >>]
  /\ readable = {}
  /\ nodeBoundElements = << >>
  /\ elements = << >>
  /\ files = {}
  /\ genResult = None

(***************************************************************************)
(* The programmatic API: several calls of createFlowchartFromDSL /         *)
(* createFlowchartFromJSON in one process.  A call runs synchronous code   *)
(* until it awaits or returns; jsThread is the call that is running.       *)
(***************************************************************************)
\* generateExcalidraw as one function of the graph
GenerateAll(g, canRead) ==
  LET bound == BoundElementsOf(g, 1, << >>)
      ns == NodeElements(g, 1, bound,
                         [elements |-> << >>, files |-> {}, nextId |-> 1], canRead)
      es == [ns EXCEPT !.elements = EdgeElements(g, 1, ns.elements)]
      imgs == PositionedImages(g.images, 1, es, canRead)
  IN generateScatteredImages(g.scatter, 1, imgs, canRead)

\* the number of elements generateExcalidraw creates for a graph
ElementCount(g) == Len(GenerateAll(g, {}).elements)

apiOthers == << pc, dslVars, cliVars, jsonVars, dotVars, genVars, layVars, procVars,
               svgVars, callVars >>

\* const graph = parse(...); const layoutedGraph = await layoutGraph(graph)
ApiParse(p) ==
  /\ jsThread = 0
  /\ apiPc[p] = "idle"
  /\ apiPc' = [apiPc EXCEPT ![p] = "layout"]
  /\ UNCHANGED << apiGraph, apiIndices, indexCounter, jsThread >>
  /\ UNCHANGED apiOthers

\* a generateExcalidraw that does not reset the counter
ApiGenerateStartNoReset(p) ==
  /\ jsThread = 0
  /\ apiPc[p] = "layout"
  /\ apiPc' = [apiPc EXCEPT ![p] = "generate"]
  /\ jsThread' = p
  /\ apiIndices' = [apiIndices EXCEPT ![p] = << >>]
  /\ UNCHANGED << apiGraph, indexCounter >>
  /\ UNCHANGED apiOthers

\* the layout promise has resolved: generateExcalidraw starts with
\* resetIndexCounter() and an empty elements array
ApiGenerateStart(p) ==
  /\ jsThread = 0
  /\ apiPc[p] = "layout"
  /\ apiPc' = [apiPc EXCEPT ![p] = "generate"]
  /\ jsThread' = p
  /\ indexCounter' = 0
  /\ apiIndices' = [apiIndices EXCEPT ![p] = << >>]
  /\ UNCHANGED apiGraph
  /\ UNCHANGED apiOthers

\* the base element of one element: it takes the next value of the counter
ApiCreateElement(p) ==
  /\ jsThread = p
  /\ apiPc[p] = "generate"
  /\ Len(apiIndices[p]) < ElementCount(apiGraph[p])
  /\ indexCounter' = indexCounter + 1
  /\ apiIndices' = [apiIndices EXCEPT ![p] = Append(@, indexCounter + 1)]
  /\ UNCHANGED << apiPc, apiGraph, jsThread >>
  /\ UNCHANGED apiOthers

\* generateExcalidraw returns, the document is serialized, the promise resolves
ApiReturn(p) ==
  /\ jsThread = p
  /\ apiPc[p] = "generate"
  /\ Len(apiIndices[p]) = ElementCount(apiGraph[p])
  /\ apiPc' = [apiPc EXCEPT ![p] = "done"]
  /\ jsThread' = 0
  /\ UNCHANGED << apiGraph, apiIndices, indexCounter >>
  /\ UNCHANGED apiOthers

ApiIdle ==
  /\ apiPc = << >>
  /\ apiGraph = << >>
  /\ apiIndices = << >>
  /\ indexCounter = 0
  /\ jsThread = 0

(***************************************************************************)
(* layoutGraph, and generateScatteredImages on the canvas it returns       *)
(***************************************************************************)
RECURSIVE Flatten(_)
Flatten(ss) == IF ss = << >> THEN << >> ELSE Head(ss) \o Flatten(Tail(ss))

RECURSIVE MaxOver(_, _)
MaxOver(ns, start) ==
  IF ns = << >> THEN start
  ELSE MaxOver(Tail(ns), IF Head(ns) > start THEN Head(ns) ELSE start)

\* calculateNodeDimensions of a rectangle with a label of at most six characters
MinNodeWidth == 100
MinNodeHeight == 60

\* config.width || 30
ScatterDefaultSize == 30

layOthers == << pc, dslVars, cliVars, jsonVars, dotVars, genVars, apiVars, procVars,
               svgVars, callVars >>

NodeIdsOf(g) == {g.nodes[k].id : k \in 1..Len(g.nodes)}

\* an edge the engine cannot resolve: an end that is no child of the request
Dangling(g, edge) == edge.source \notin NodeIdsOf(g) \/ edge.target \notin NodeIdsOf(g)

\* the request is built, with one edge for each edge of the graph, and
\* elk.layout is awaited
LayRequest ==
  /\ layPc = "start"
  /\ layPc' = "await"
  /\ UNCHANGED << layGraph, layoutResult, layResult, scatterPlaced >>
  /\ UNCHANGED layOthers

\* the positions the engine gives
ElkCoords == {0, 150}

\* the engine resolves: every child with a position, every edge of the
\* request, with no route
ElkResolve ==
  /\ layPc = "await"
  /\ \E xs \in [1..Len(layGraph.nodes) -> ElkCoords] :
       layoutResult' =
         Some([children |-> [k \in 1..Len(layGraph.nodes) |->
                               [id |-> layGraph.nodes[k].id, x |-> xs[k], y |-> 0,
                                width |-> MinNodeWidth, height |-> MinNodeHeight]],
               edges |-> layGraph.edges])
  /\ layPc' = "resolved"
  /\ UNCHANGED << layGraph, layResult, scatterPlaced >>
  /\ UNCHANGED layOthers

\* the engine rejects a request with an edge to a shape that is not there;
\* layoutGraph awaits outside any try, so its promise rejects as well
ElkReject ==
  /\ layPc = "await"
  /\ \E k \in 1..Len(layGraph.edges) : Dangling(layGraph, layGraph.edges[k])
  /\ layPc' = "rejected"
  /\ UNCHANGED << layGraph, layoutResult, layResult, scatterPlaced >>
  /\ UNCHANGED layOthers

\* // Extract layouted nodes: the children that are nodes of the graph
LayoutedNodes(g, children) ==
  LET known == SelectSeq(children, LAMBDA c : c.id \in NodeIdsOf(g))
  IN [k \in 1..Len(known) |->
        [id |-> known[k].id,
         x |-> known[k].x + g.padding, y |-> known[k].y + g.padding,
         width |-> IF known[k].width = 0 THEN 100 ELSE known[k].width,
         height |-> IF known[k].height = 0 THEN 60 ELSE known[k].height]]

\* // Extract layouted edges: the engine's edges that are edges of the graph
LayoutedEdges(g, elkEdges) ==
  SelectSeq(elkEdges, LAMBDA e : \E k \in 1..Len(g.edges) : g.edges[k].id = e.id)

\* // Calculate total dimensions
CanvasWidth(g, lnodes) ==
  MaxOver([k \in 1..Len(lnodes) |-> lnodes[k].x + lnodes[k].width], 0) + g.padding

CanvasHeight(g, lnodes) ==
  MaxOver([k \in 1..Len(lnodes) |-> lnodes[k].y + lnodes[k].height], 0) + g.padding

\* the rest of layoutGraph, after the await
LayExtract ==
  /\ layPc = "resolved"
  /\ layPc' = "returned"
  /\ LET lnodes == LayoutedNodes(layGraph, layoutResult[1].children)
     IN layResult' = Some([nodes |-> lnodes,
                           edges |-> LayoutedEdges(layGraph, layoutResult[1].edges),
                           width |-> CanvasWidth(layGraph, lnodes),
                           height |-> CanvasHeight(layGraph, lnodes),
                           scatter |-> layGraph.scatter])
  /\ UNCHANGED << layGraph, layoutResult, scatterPlaced >>
  /\ UNCHANGED layOthers

\* Math.random() is one of 0, 1/d, ..., (d-1)/d; coordinates are kept
\* multiplied by d
RandomDenominator == 2

\* the configs of the scatter images, one for each instance, in order
ScatterInstances(configs) ==
  Flatten([k \in 1..Len(configs) |-> [n \in 1..configs[k].count |-> configs[k]]])

\* width || 30
OrDefaultSize(w) == IF w = None \/ w = Some(0) THEN ScatterDefaultSize ELSE w[1]

\* generateScatteredImages: the position of the next instance
ScatterPlace ==
  /\ layPc = "returned"
  /\ LET insts == ScatterInstances(layResult[1].scatter)
         n == Len(scatterPlaced) + 1
     IN /\ n <= Len(insts)
        /\ LET width == OrDefaultSize(insts[n].width)
               height == OrDefaultSize(insts[n].height)
           IN \E rx, ry \in 0..(RandomDenominator - 1) :
                scatterPlaced' =
                  Append(scatterPlaced,
                         [x |-> rx * (layResult[1].width - width),
                          y |-> ry * (layResult[1].height - height),
                          width |-> width, height |-> height])
  /\ UNCHANGED << layPc, layGraph, layoutResult, layResult >>
  /\ UNCHANGED layOthers

LayIdle ==
  /\ layPc = "idle"
  /\ layGraph = << >>
  /\ layoutResult = None
  /\ layResult = None
  /\ scatterPlaced = << >>

(***************************************************************************)
(* The exporter: several calls of convertToSVG in one process              *)
(***************************************************************************)
svgOthers == << pc, dslVars, cliVars, jsonVars, dotVars, genVars, apiVars, layVars,
               procVars, callVars >>

\* convertToSVG up to its first await: ensureDOMPolyfill returns at once if
\* the flag is set, and else awaits the import of jsdom
SvgCall(p) ==
  /\ svgPc[p] = "idle"
  /\ svgPc' = [svgPc EXCEPT ![p] = IF polyfillApplied THEN "polyfilled" ELSE "jsdom"]
  /\ UNCHANGED << capturedAtLoad, polyfillApplied, installs, consoleError,
                  originalError >>
  /\ UNCHANGED svgOthers

\* ensureDOMPolyfill after the import: the JSDOM, the DOM globals, the
\* wrapping of fetch, and then the flag
PolyfillInstall(p) ==
  /\ svgPc[p] = "jsdom"
  /\ installs' = installs + 1
  /\ polyfillApplied' = TRUE
  /\ svgPc' = [svgPc EXCEPT ![p] = "polyfilled"]
  /\ UNCHANGED << capturedAtLoad, consoleError, originalError >>
  /\ UNCHANGED svgOthers

\* the exporter with NATIVE_CONSOLE_ERROR: after the import of
\* @excalidraw/utils console.error is patched and exportToSvg awaited
SvgPatchNative(p) ==
  /\ capturedAtLoad
  /\ svgPc[p] = "polyfilled"
  /\ originalError' = [originalError EXCEPT ![p] = 0]
  /\ consoleError' = p
  /\ svgPc' = [svgPc EXCEPT ![p] = "render"]
  /\ UNCHANGED << capturedAtLoad, polyfillApplied, installs >>
  /\ UNCHANGED svgOthers

\* the exporter with const originalError = console.error
SvgPatchCaptured(p) ==
  /\ ~capturedAtLoad
  /\ svgPc[p] = "polyfilled"
  /\ originalError' = [originalError EXCEPT ![p] = consoleError]
  /\ consoleError' = p
  /\ svgPc' = [svgPc EXCEPT ![p] = "render"]
  /\ UNCHANGED << capturedAtLoad, polyfillApplied, installs >>
  /\ UNCHANGED svgOthers

\* exportToSvg resolves or rejects; finally console.error is put back
SvgSettle(p) ==
  /\ svgPc[p] = "render"
  /\ consoleError' = originalError[p]
  /\ \E outcome \in {"resolved", "rejected"} :
       svgPc' = [svgPc EXCEPT ![p] = outcome]
  /\ UNCHANGED << capturedAtLoad, polyfillApplied, installs, originalError >>
  /\ UNCHANGED svgOthers

SvgIdle ==
  /\ svgPc = << >>
  /\ capturedAtLoad = TRUE
  /\ polyfillApplied = FALSE
  /\ installs = 0
  /\ consoleError = 0
  /\ originalError = << >>

(***************************************************************************)
(* The exporter: resolveOptions and swapExtension                          *)
(***************************************************************************)
callOthers == << dslVars, cliVars, jsonVars, dotVars, genVars, apiVars, layVars,
                svgVars, procVars >>

CallIdle ==
  /\ args = << >>
  /\ result = None

\* a property of an object: "absent" when the object has no such key,
\* "undefined" when the key is there with the value undefined, else the value
ExportKeys == {"format", "exportBackground", "viewBackgroundColor", "exportPadding"}

DEFAULT_EXPORT_OPTIONS ==
  [format |-> "svg", exportBackground |-> "true",
   viewBackgroundColor |-> "#ffffff", exportPadding |-> "10"]

\* { ...a, ...b }: every key of b, the undefined ones too, overwrites
Spread(a, b) == [k \in DOMAIN a |-> IF b[k] = "absent" THEN a[k] ELSE b[k]]

\* a ?? b
Coalesce(a, b) == IF a \in {"absent", "undefined"} THEN b ELSE a

\* options.viewBackgroundColor ?? file.appState?.viewBackgroundColor ?? default
BackgroundOf(file, opts) ==
  Coalesce(opts.viewBackgroundColor,
           Coalesce(file.viewBackgroundColor,
                    DEFAULT_EXPORT_OPTIONS.viewBackgroundColor))

\* resolveOptions of the exporter that spreads the options before the colour
resolveOptions(file, opts) ==
  [Spread(DEFAULT_EXPORT_OPTIONS, opts)
     EXCEPT !.viewBackgroundColor = BackgroundOf(file, opts)]

\* resolveOptions of the exporter that spreads the options after the colour
resolveOptionsSpreadLast(file, opts) ==
  Spread([DEFAULT_EXPORT_OPTIONS
            EXCEPT !.viewBackgroundColor = BackgroundOf(file, opts)],
         opts)

ResolveOptions ==
  /\ pc = "resolveOptions"
  /\ pc' = "resolved"
  /\ result' = Some(resolveOptions(args.file, args.options))
  /\ UNCHANGED args
  /\ UNCHANGED callOthers

ResolveOptionsSpreadLast ==
  /\ pc = "resolveOptions"
  /\ pc' = "resolved"
  /\ result' = Some(resolveOptionsSpreadLast(args.file, args.options))
  /\ UNCHANGED args
  /\ UNCHANGED callOthers

\* filePath.lastIndexOf('.'): the index from 0 of the last dot, -1 if none
LastIndexOf(s, c) ==
  LET ks == {k \in 1..Len(s) : s[k] = c}
  IN IF ks = {} THEN -1
     ELSE (CHOOSE k \in ks : \A m \in ks : m <= k) - 1

\* swapExtension: substring(0, lastDot) is the first lastDot characters
swapExtension(filePath, newExt) ==
  LET lastDot == LastIndexOf(filePath, ".")
      base == IF lastDot > 0 THEN SubSeq(filePath, 1, lastDot) ELSE filePath
  IN base \o << "." >> \o newExt

SwapExtension ==
  /\ pc = "swapExtension"
  /\ pc' = "swapped"
  /\ result' = Some(swapExtension(args.filePath, args.newExt))
  /\ UNCHANGED args
  /\ UNCHANGED callOthers

(***************************************************************************)
(* resolvePositionedImages.  Sizes are even numbers, so that the halves of  *)
(* getAnchorOffset are whole.                                              *)
(***************************************************************************)
AnchorMargin == 5

ImageDefaultSize == 50

\* getAnchorOffset: anchor is None for undefined; any other anchor than the
\* eight takes the default branch
getAnchorOffset(anchor, nodeWidth, nodeHeight, imageWidth, imageHeight) ==
  LET a == IF anchor = None THEN << >> ELSE anchor[1]
  IN CASE a = << "t", "o", "p" >> ->
            [x |-> (nodeWidth - imageWidth) \div 2, y |-> 0 - imageHeight - AnchorMargin]
       [] a = << "b", "o", "t", "t", "o", "m" >> ->
            [x |-> (nodeWidth - imageWidth) \div 2, y |-> nodeHeight + AnchorMargin]
       [] a = << "l", "e", "f", "t" >> ->
            [x |-> 0 - imageWidth - AnchorMargin, y |-> (nodeHeight - imageHeight) \div 2]
       [] a = << "r", "i", "g", "h", "t" >> ->
            [x |-> nodeWidth + AnchorMargin, y |-> (nodeHeight - imageHeight) \div 2]
       [] a = << "t", "o", "p", "-", "l", "e", "f", "t" >> ->
            [x |-> 0 - (imageWidth \div 2), y |-> 0 - (imageHeight \div 2)]
       [] a = topRight ->
            [x |-> nodeWidth - (imageWidth \div 2), y |-> 0 - (imageHeight \div 2)]
       [] a = << "b", "o", "t", "t", "o", "m", "-", "l", "e", "f", "t" >> ->
            [x |-> 0 - (imageWidth \div 2), y |-> nodeHeight - (imageHeight \div 2)]
       [] a = << "b", "o", "t", "t", "o", "m", "-", "r", "i", "g", "h", "t" >> ->
            [x |-> nodeWidth - (imageWidth \div 2), y |-> nodeHeight - (imageHeight \div 2)]
       [] OTHER ->
            [x |-> nodeWidth - (imageWidth \div 2), y |-> 0 - (imageHeight \div 2)]

\* // Build node lookup by label
RECURSIVE NodeByLabel(_, _, _)
NodeByLabel(layoutedNodes, k, map) ==
  IF k > Len(layoutedNodes) THEN map
  ELSE NodeByLabel(layoutedNodes, k + 1,
                   MapSet(map, layoutedNodes[k].label, layoutedNodes[k]))

\* image.width || defaultSize: undefined (None) and 0 give the default
OrImageDefault(size) == IF size = None \/ size = Some(0) THEN ImageDefaultSize ELSE size[1]

\* a loop body that pushes nothing for a label that no node has
ResolveImageDropping(image, nodeByLabel) ==
  LET width == OrImageDefault(image.width)
      height == OrImageDefault(image.height)
      at(x, y) == [id |-> image.id, src |-> image.src, x |-> x, y |-> y,
                   width |-> width, height |-> height]
  IN IF image.position.type = "absolute"
       THEN << at(image.position.x, image.position.y) >>
     ELSE IF image.position.type = "near"
       THEN LET node == MapGet(nodeByLabel, image.position.nodeLabel)
            IN IF node # None
                 THEN LET offset == getAnchorOffset(image.position.anchor, node[1].width,
                                                    node[1].height, width, height)
                      IN << at(node[1].x + offset.x, node[1].y + offset.y) >>
                 ELSE << >>
     ELSE << >>

\* the body of the loop over the images: what it pushes onto result
ResolveImage(image, nodeByLabel) ==
  LET width == OrImageDefault(image.width)
      height == OrImageDefault(image.height)
      at(x, y) == [id |-> image.id, src |-> image.src, x |-> x, y |-> y,
                   width |-> width, height |-> height]
  IN IF image.position.type = "absolute"
       THEN << at(image.position.x, image.position.y) >>
     ELSE IF image.position.type = "near"
       THEN LET node == MapGet(nodeByLabel, image.position.nodeLabel)
            IN IF node # None
                 THEN LET offset == getAnchorOffset(image.position.anchor, node[1].width,
                                                    node[1].height, width, height)
                      IN << at(node[1].x + offset.x, node[1].y + offset.y) >>
                 ELSE << at(0, 0) >>
     ELSE << >>

resolvePositionedImages(imgs, layoutedNodes) ==
  LET nodeByLabel == NodeByLabel(layoutedNodes, 1, << >>)
  IN Flatten([k \in 1..Len(imgs) |-> ResolveImage(imgs[k], nodeByLabel)])

ResolvePositionedImages ==
  /\ pc = "resolveImages"
  /\ pc' = "imagesResolved"
  /\ result' = Some(resolvePositionedImages(args.images, args.layoutedNodes))
  /\ UNCHANGED args
  /\ UNCHANGED callOthers

(***************************************************************************)
(* The index of the elements of a document.  createBaseElement gives an     *)
(* element the next value of the counter that generateExcalidraw resets.   *)
(***************************************************************************)
\* the elements before generateScatteredImages is called: each one was pushed
\* right after it was created
BeforeScatter(g, canRead) ==
  LET bound == BoundElementsOf(g, 1, << >>)
      ns == NodeElements(g, 1, bound,
                         [elements |-> << >>, files |-> {}, nextId |-> 1], canRead)
      es == [ns EXCEPT !.elements = EdgeElements(g, 1, ns.elements)]
  IN PositionedImages(g.images, 1, es, canRead).elements

\* the counter value of each element of the returned array: the scatter
\* images are created after all others and each one is put in front
IndexedElements(g, canRead) ==
  LET all == GenerateAll(g, canRead).elements
      pushed == Len(BeforeScatter(g, canRead))
      unshifted == Len(all) - pushed
  IN [k \in 1..Len(all) |->
        [id |-> all[k].id,
         index |-> IF k <= unshifted THEN pushed + (unshifted - k + 1)
                   ELSE k - unshifted]]

GenerateIndexed ==
  /\ pc = "generate"
  /\ pc' = "generated"
  /\ result' = Some(IndexedElements(args.graph, args.readable))
  /\ UNCHANGED args
  /\ UNCHANGED callOthers

(***************************************************************************)
(* tokenize, one iteration of its main loop at a time: args is the input,  *)
(* result holds i and tokens of the loop and is what tokenize returns.     *)
(***************************************************************************)
\* an iteration that leaves i where it is at a character that starts nothing
LexStepStaying ==
  /\ pc = "tokenize"
  /\ result[1].i <= Len(args)
  /\ LET r == TokenizeStep(args, result[1].i)
         known == r.toks # << >> \/ args[result[1].i] \in {" ", "\t", "#"}
     IN result' = Some([i |-> IF known THEN r.i ELSE result[1].i,
                        tokens |-> result[1].tokens \o r.toks])
  /\ UNCHANGED << pc, args >>
  /\ UNCHANGED callOthers

\* while (i < len) { ... }: one iteration
LexStep ==
  /\ pc = "tokenize"
  /\ result[1].i <= Len(args)
  /\ LET r == TokenizeStep(args, result[1].i)
     IN result' = Some([i |-> r.i, tokens |-> result[1].tokens \o r.toks])
  /\ UNCHANGED << pc, args >>
  /\ UNCHANGED callOthers

\* return tokens
LexReturn ==
  /\ pc = "tokenize"
  /\ result[1].i > Len(args)
  /\ pc' = "tokenized"
  /\ UNCHANGED << args, result >>
  /\ UNCHANGED callOthers

(***************************************************************************)
(* One process that parses one input after another                         *)
(***************************************************************************)
\* the graph the parser that has just returned gave
ReturnedGraph ==
  IF pc = "parsed"
    THEN [nodes |-> nodes, edges |-> edges, options |-> options,
          images |-> images, scatter |-> scatter, library |-> library]
  ELSE IF pc = "json_returned"
    THEN [nodes |-> jsonResult[1].nodes, edges |-> jsonResult[1].edges,
          options |-> jsonResult[1].options]
  ELSE dotResult[1]

\* the parse that has just returned, if there is one
LastParse ==
  IF pc = "parsed"
    THEN << [parser |-> "dsl", input |-> input, graph |-> ReturnedGraph] >>
  ELSE IF pc = "json_returned"
    THEN << [parser |-> "json", input |-> jsonInput, graph |-> ReturnedGraph] >>
  ELSE IF pc = "dot_returned"
    THEN << [parser |-> "dot", input |-> dotInput, graph |-> ReturnedGraph] >>
  ELSE << >>

MaxParses == 3

\* no parser is running, and the process has parses left to make
BetweenParses ==
  /\ pc \in {"process", "parsed", "json_returned", "dot_returned"}
  /\ Len(parsed) + Len(LastParse) < MaxParses

\* the next call is parseDSL(text)
CallParseDSL(text) ==
  /\ BetweenParses
  /\ parsed' = parsed \o LastParse
  /\ pc' = "start"
  /\ input' = text
  /\ UNCHANGED << tokens, i, nodes, edges, options, images, scatter, library,
                  lastNode, pendingVars, nextId >>
  /\ UNCHANGED << cliVars, jsonVars, dotVars, genVars, restVars, defaultLayoutOptions >>

\* the next call is parseJSON(json)
CallParseJSON(json) ==
  /\ BetweenParses
  /\ parsed' = parsed \o LastParse
  /\ pc' = "json_nodes"
  /\ jsonInput' = json
  /\ jsonK' = 0
  /\ jsonNodeMap' = << >>
  /\ jsonEdges' = << >>
  /\ jsonResult' = None
  /\ UNCHANGED << dslVars, cliVars, dotVars, genVars, restVars, defaultLayoutOptions >>

\* the next call is parseDOT of a text that fromDot reads as dot
CallParseDOT(dot) ==
  /\ BetweenParses
  /\ parsed' = parsed \o LastParse
  /\ pc' = "dot_start"
  /\ dotInput' = dot
  /\ explicitNodes' = << >>
  /\ allNodeIds' = << >>
  /\ dotNodeMap' = << >>
  /\ dotEdges' = << >>
  /\ dotResult' = None
  /\ UNCHANGED << dslVars, cliVars, jsonVars, genVars, restVars, defaultLayoutOptions >>

\* a process that has parsed nothing yet
ProcIdle ==
  /\ defaultLayoutOptions = DEFAULT_LAYOUT_OPTIONS
  /\ parsed = << >>

LaterIdle == ApiIdle /\ LayIdle /\ ProcIdle /\ SvgIdle /\ CallIdle

(***************************************************************************)
(* Inputs: texts made of at most n of a few lexemes                        *)
(***************************************************************************)
RECURSIVE Concat(_)
Concat(ss) == IF ss = << >> THEN << >> ELSE Head(ss) \o Concat(Tail(ss))

TextsOver(lexemes, n) ==
  {Concat(ss) : ss \in UNION {[1..k -> lexemes] : k \in 0..n}}

MaxLexemes == 4

\* two rectangles that differ in white space only, a diamond and an image of
\* the same label, a dashed reverse and a bidirectional connector, a quoted
\* label, a newline, a decoration and a spacing directive
DslLexemes ==
  { << "[", "A", "]" >>, << "[", " ", "A", "]" >>, << "{", "A", "}" >>,
    << "!", "[", "A", "]" >>,
    << "<", "-", "-" >>, << "<", "-", ">" >>,
    << "\"", "x", "\"" >>, << "\n" >>,
    << "@", "d", "e", "c", "o", "r", "a", "t", "e", " ", "d", " " >>,
    << "@", "s", "p", "a", "c", "i", "n", "g", " ", "9" >> }

vars == << pc, dslVars, cliVars, jsonVars, dotVars, genVars,
                  laterVars >>

Init ==
  /\ pc = "start"
  /\ input \in TextsOver(DslLexemes, MaxLexemes)
  /\ DslIdle
  /\ CliIdle /\ JsonIdle /\ DotIdle /\ GenIdle /\ LaterIdle

Next == parseDSL

\* parseDSL on every text of at most MaxLexemes of the DslLexemes
Spec == Init /\ [][Next]_vars

MaxArrowChars == 4

\* `[A]`, then at most MaxArrowChars characters of connectors, then `{B}`
ArrowTexts ==
  {<< "[", "A", "]" >> \o mid \o << "{", "B", "}" >> :
     mid \in TextsOver({<< "<" >>, << "-" >>, << ">" >>, << " " >>}, MaxArrowChars)}

InitArrow ==
  /\ pc = "start"
  /\ input \in ArrowTexts
  /\ DslIdle
  /\ CliIdle /\ JsonIdle /\ DotIdle /\ GenIdle /\ LaterIdle

NextArrow ==
  \/ Tokenize
  \/ ParseNode
  \/ ParseArrow
  \/ ReturnGraph

\* parseDSL on two literals with every short run of connector characters
\* between them
SpecArrow == InitArrow /\ [][NextArrow]_vars

MaxCreateLexemes == 3

CreateLexemes ==
  { << "@", "d", "i", "r", "e", "c", "t", "i", "o", "n", " ", "L", "R" >>,
    << "@", "s", "p", "a", "c", "i", "n", "g", " ", "9" >>,
    << "[", "A", "]" >>, << "\n" >> }

\* --direction absent, valid in lower case, not a direction
CliDirections == {None, Some(<< "b", "t" >>), Some(<< "u", "p" >>)}

\* --spacing absent, a number, not a number
CliSpacings == {None, Some(<< "7" >>), Some(<< "x" >>)}

InitCreate ==
  /\ pc = "start"
  /\ input \in TextsOver(CreateLexemes, MaxCreateLexemes)
  /\ cliDirection \in CliDirections
  /\ cliSpacing \in CliSpacings
  /\ layoutCall = None
  /\ DslIdle /\ JsonIdle /\ DotIdle /\ GenIdle /\ LaterIdle

NextCreate ==
  \/ Tokenize
  \/ ParseNewline
  \/ ParseDirective
  \/ ParseNode
  \/ ReturnGraph
  \/ ApplyCliOptions
  \/ LayoutGraph

\* the create command on a DSL text of directives and a node, with and
\* without --direction and --spacing
SpecCreate == InitCreate /\ [][NextCreate]_vars

\* all sequences over S of length at most n
SeqsUpTo(S, n) == UNION {[1..m -> S] : m \in 0..n}

MaxJsonNodes == 2
MaxJsonEdges == 2

\* the empty id, which gets a generated id, and two ids
JsonIds == {<< >>, << "a" >>, << "b" >>}

\* no options, a direction, and a direction that is none of the four
JsonOptionsOf == {None, Some([direction |-> dirLR]), Some([direction |-> << "u", "p" >>])}

InitJSON ==
  /\ pc = "json_nodes"
  /\ \E ns \in SeqsUpTo([id : JsonIds, type : {"diamond", "star"}], MaxJsonNodes) :
       \E es \in SeqsUpTo([from : JsonIds, to : JsonIds], MaxJsonEdges) :
         \E opts \in JsonOptionsOf :
           jsonInput = [nodes |-> ns, edges |-> es, options |-> opts]
  /\ jsonK = 0
  /\ jsonNodeMap = << >>
  /\ jsonEdges = << >>
  /\ jsonResult = None
  /\ input = << >> /\ DslIdle /\ CliIdle /\ DotIdle /\ GenIdle /\ LaterIdle

\* parseJSON on every input of at most MaxJsonNodes nodes and MaxJsonEdges edges
SpecJSON == InitJSON /\ [][parseJSON]_vars

MaxDotNodes == 1
MaxDotEdges == 1

DotIds == {<< >>, << "a" >>, << "b" >>}

\* a reference to each id, and the group `{ b }`
DotTargets == {NodeRef(id) : id \in DotIds} \cup {NodeGroup(<< << "b" >> >>)}

\* the graphs without subgraphs
DotLeaves ==
  {[nodes |-> ns, edges |-> es, subgraphs |-> << >>] :
     ns \in SeqsUpTo(DotIds, MaxDotNodes),
     es \in SeqsUpTo({PlainEdge(ts) : ts \in [1..2 -> DotTargets]}, MaxDotEdges)}

\* no rankdir, a direction in lower case, and one that is none of the four
DotRankDirs == {None, Some(<< "l", "r" >>), Some(<< "u", "p" >>)}

InitDOT ==
  /\ pc = "dot_start"
  /\ \E g \in DotLeaves :
       \E subs \in SeqsUpTo(DotLeaves, 1) :
         \E rankdir \in DotRankDirs :
           dotInput = [nodes |-> g.nodes, edges |-> g.edges, subgraphs |-> subs,
                       rankdir |-> rankdir]
  /\ explicitNodes = << >>
  /\ allNodeIds = << >>
  /\ dotNodeMap = << >>
  /\ dotEdges = << >>
  /\ dotResult = None
  /\ input = << >> /\ DslIdle /\ CliIdle /\ JsonIdle /\ GenIdle /\ LaterIdle

\* parseDOT on every graph of at most MaxDotNodes node statements and
\* MaxDotEdges edge statements, with at most one subgraph of that size
SpecDOT == InitDOT /\ [][parseDOT]_vars

MaxGenNodes == 2
MaxGenEdges == 1
MaxGenImages == 1
MaxScatterCount == 2

localSrc == << "a", ".", "p", "n", "g" >>
otherSrc == << "b", ".", "p", "n", "g" >>
urlSrc == httpPrefix \o << "u" >>

GenNodeId(k) == << "n", ToString(k) >>

\* a rectangle, a rectangle with a decoration, an image of a file, an image of a URL
GenNodeKinds ==
  { [type |-> "rectangle", image |-> None, decorations |-> << >>],
    [type |-> "rectangle", image |-> None, decorations |-> << [src |-> localSrc] >>],
    [type |-> "image", image |-> Some(localSrc), decorations |-> << >>],
    [type |-> "image", image |-> Some(urlSrc), decorations |-> << >>] }

GenNode(k, kind) ==
  [id |-> GenNodeId(k), type |-> kind.type, image |-> kind.image,
   decorations |-> kind.decorations]

ArrowheadFields == {"undefined", "null", "arrow"}

GenStyles ==
  {None} \cup {Some([startArrowhead |-> a, endArrowhead |-> b]) :
                 a \in ArrowheadFields, b \in ArrowheadFields}

\* the ends of an edge are among the ids of MaxGenNodes nodes, so that an
\* edge of a graph of fewer nodes dangles
GenEdgesOf ==
  [id : {<< "e", "1" >>},
   source : {GenNodeId(k) : k \in 1..MaxGenNodes},
   target : {GenNodeId(k) : k \in 1..MaxGenNodes},
   label : {None, Some(<< "l" >>)},
   style : GenStyles]

InitGen ==
  /\ pc = "gen_start"
  /\ \E kinds \in SeqsUpTo(GenNodeKinds, MaxGenNodes) :
       \E es \in SeqsUpTo(GenEdgesOf, MaxGenEdges) :
         \E imgs \in SeqsUpTo({[id |-> << "i", "1" >>, src |-> otherSrc]}, MaxGenImages) :
           \E sc \in SeqsUpTo({[src |-> localSrc, count |-> MaxScatterCount]}, 1) :
             graph = [nodes |-> [k \in 1..Len(kinds) |-> GenNode(k, kinds[k])],
                      edges |-> es, images |-> imgs, scatter |-> sc]
  /\ readable \in SUBSET {localSrc, otherSrc}
  /\ nodeBoundElements = << >>
  /\ elements = << >>
  /\ files = {}
  /\ genResult = None
  /\ input = << >> /\ DslIdle /\ CliIdle /\ JsonIdle /\ DotIdle /\ LaterIdle

\* generateExcalidraw on every graph of at most MaxGenNodes nodes, MaxGenEdges
\* edges, MaxGenImages images and one scatter, with the image file readable or not
SpecGen == InitGen /\ [][generateExcalidraw]_vars

MaxApiCalls == 2

ApiCalls == 1..MaxApiCalls

\* no node; a rectangle; two rectangles and a labelled edge between them
ApiGraphs ==
  LET rect == [type |-> "rectangle", image |-> None, decorations |-> << >>]
      none == [nodes |-> << >>, edges |-> << >>, images |-> << >>, scatter |-> << >>]
  IN { none,
       [none EXCEPT !.nodes = << GenNode(1, rect) >>],
       [none EXCEPT !.nodes = << GenNode(1, rect), GenNode(2, rect) >>,
                    !.edges = << [id |-> << "e", "1" >>, source |-> GenNodeId(1),
                                  target |-> GenNodeId(2), label |-> Some(<< "l" >>),
                                  style |-> None] >>] }

InitApi ==
  /\ pc = "api"
  /\ apiPc = [p \in ApiCalls |-> "idle"]
  /\ apiGraph \in [ApiCalls -> ApiGraphs]
  /\ apiIndices = [p \in ApiCalls |-> << >>]
  /\ indexCounter \in 0..1
  /\ jsThread = 0
  /\ input = << >> /\ DslIdle /\ CliIdle /\ JsonIdle /\ DotIdle /\ GenIdle
  /\ LayIdle /\ ProcIdle /\ SvgIdle /\ CallIdle

NextApi ==
  \/ \E p \in ApiCalls : ApiParse(p)
  \/ \E p \in ApiCalls : ApiGenerateStart(p)
  \/ \E p \in ApiCalls : ApiCreateElement(p)
  \/ \E p \in ApiCalls : ApiReturn(p)

\* MaxApiCalls calls of the API in one process, interleaving where they await
SpecApi == InitApi /\ [][NextApi]_vars

MaxLayNodes == 2
MaxLayEdges == 1
MaxLayScatterCount == 2

LayNodeId(k) == << "n", ToString(k) >>

\* the ends of an edge are among the ids of MaxLayNodes nodes, so that an edge
\* of a graph of fewer nodes dangles
LayEdgesOf ==
  [id : {<< "e", "1" >>},
   source : {LayNodeId(k) : k \in 1..MaxLayNodes},
   target : {LayNodeId(k) : k \in 1..MaxLayNodes}]

\* @scatter with and without width: and height:
LayScatterOf ==
  [width : {None, Some(100)}, height : {None, Some(100)},
   count : 1..MaxLayScatterCount]

InitLayout ==
  /\ pc = "layout"
  /\ layPc = "start"
  /\ \E n \in 0..MaxLayNodes :
       \E es \in SeqsUpTo(LayEdgesOf, MaxLayEdges) :
         \E sc \in SeqsUpTo(LayScatterOf, 1) :
           layGraph = [nodes |-> [k \in 1..n |-> [id |-> LayNodeId(k)]],
                       edges |-> es, scatter |-> sc, padding |-> DefaultPadding]
  /\ layoutResult = None
  /\ layResult = None
  /\ scatterPlaced = << >>
  /\ input = << >> /\ DslIdle /\ CliIdle /\ JsonIdle /\ DotIdle /\ GenIdle
  /\ ApiIdle /\ ProcIdle /\ SvgIdle /\ CallIdle

layoutGraph ==
  \/ LayRequest
  \/ ElkResolve
  \/ ElkReject
  \/ LayExtract

NextLayout ==
  \/ layoutGraph
  \/ ScatterPlace

\* layoutGraph on every graph of at most MaxLayNodes nodes and MaxLayEdges
\* edges, then the placing of its scatter images
SpecLayout == InitLayout /\ [][NextLayout]_vars

\* an image with a decoration and on the next line `[A] -> "x" [B]`;
\* `@direction LR`; `@spacing 9`
ReparseTexts ==
  { << "!", "[", "A", "]", " ",
       "@", "d", "e", "c", "o", "r", "a", "t", "e", " ", "d", "\n",
       "[", "A", "]", " ", "-", ">", " ", "\"", "x", "\"", " ", "[", "B", "]" >>,
    << "@", "d", "i", "r", "e", "c", "t", "i", "o", "n", " ", "L", "R" >>,
    << "@", "s", "p", "a", "c", "i", "n", "g", " ", "9" >> }

\* a node with a generated id and an edge on it, without and with options
ReparseJsons ==
  { [nodes |-> << [id |-> << >>, type |-> "diamond"] >>,
     edges |-> << [from |-> << >>, to |-> << >>] >>, options |-> opts] :
      opts \in {None, Some([direction |-> dirLR])} }

\* `a -> b`, without and with rankdir
ReparseDots ==
  { [nodes |-> << >>, edges |-> << PlainEdge([k \in 1..2 |-> NodeRef(<< "a" >>)]) >>,
     subgraphs |-> << >>, rankdir |-> r] : r \in {None, Some(<< "l", "r" >>)} }

InitReparse ==
  /\ pc = "process"
  /\ input = << >>
  /\ DslIdle /\ CliIdle /\ JsonIdle /\ DotIdle /\ GenIdle /\ LaterIdle

NextReparse ==
  \/ \E text \in ReparseTexts : CallParseDSL(text)
  \/ \E json \in ReparseJsons : CallParseJSON(json)
  \/ \E dot \in ReparseDots : CallParseDOT(dot)
  \/ parseDSL
  \/ parseJSON
  \/ parseDOT

\* MaxParses parses in one process, each of any of the three parsers
SpecReparse == InitReparse /\ [][NextReparse]_vars

MaxAnchorLexemes == 3

\* a node, an image, an arrow, a label, a newline, and decorations and near
\* placements with the anchors top, left and mid
AnchorLexemes ==
  { << "[", "A", "]" >>,
    << "!", "[", "A", "]" >>,
    << " ", "-", ">", " " >>,
    << "\"", "x", "\"" >>,
    << "\n" >>,
    << "@", "d", "e", "c", "o", "r", "a", "t", "e", " ", "d", " ", "t", "o", "p" >>,
    << "@", "d", "e", "c", "o", "r", "a", "t", "e", " ", "d", " ", "m", "i", "d" >>,
    << "@", "i", "m", "a", "g", "e", " ", "p", " ", "n", "e", "a", "r", " ", "(", "A", ")", " ", "l", "e", "f", "t" >>,
    << "@", "i", "m", "a", "g", "e", " ", "p", " ", "n", "e", "a", "r", " ", "(", "A", ")", " ", "m", "i", "d" >> }

InitAnchor ==
  /\ pc = "start"
  /\ input \in TextsOver(AnchorLexemes, MaxAnchorLexemes)
  /\ DslIdle
  /\ CliIdle /\ JsonIdle /\ DotIdle /\ GenIdle /\ LaterIdle

\* parseDSL on every text of at most MaxAnchorLexemes of the AnchorLexemes
SpecAnchor == InitAnchor /\ [][parseDSL]_vars

MaxSvgCalls == 2

SvgCalls == 1..MaxSvgCalls

InitSvg ==
  /\ pc = "export"
  /\ svgPc = [p \in SvgCalls |-> "idle"]
  /\ capturedAtLoad \in BOOLEAN
  /\ polyfillApplied = FALSE
  /\ installs = 0
  /\ consoleError = 0
  /\ originalError = [p \in SvgCalls |-> 0]
  /\ input = << >> /\ DslIdle /\ CliIdle /\ JsonIdle /\ DotIdle /\ GenIdle
  /\ ApiIdle /\ LayIdle /\ ProcIdle /\ CallIdle

NextSvg ==
  \/ \E p \in SvgCalls : SvgCall(p)
  \/ \E p \in SvgCalls : PolyfillInstall(p)
  \/ \E p \in SvgCalls : SvgPatchNative(p)
  \/ \E p \in SvgCalls : SvgPatchCaptured(p)
  \/ \E p \in SvgCalls : SvgSettle(p)

\* MaxSvgCalls calls of convertToSVG in one process, with either exporter
SpecSvg == InitSvg /\ [][NextSvg]_vars

\* a key that is absent, undefined, or has a value that is not the default
OptionValues(value) == {"absent", "undefined", value}

ExportOptionsOf ==
  [format : {"png"},
   exportBackground : OptionValues("false"),
   viewBackgroundColor : OptionValues("#112233"),
   exportPadding : OptionValues("20")]

\* the appState of the file: with a background colour or without
ExportFiles == [viewBackgroundColor : {"absent", "#aabbcc"}]

MaxPathLen == 4

PathChars == {"a", ".", "/"}

InitExport ==
  /\ \/ /\ pc = "resolveOptions"
        /\ args \in [file : ExportFiles, options : ExportOptionsOf]
     \/ /\ pc = "swapExtension"
        /\ args \in [filePath : SeqsUpTo(PathChars, MaxPathLen), newExt : {<< "s" >>}]
  /\ result = None
  /\ input = << >> /\ DslIdle /\ CliIdle /\ JsonIdle /\ DotIdle /\ GenIdle
  /\ ApiIdle /\ LayIdle /\ ProcIdle /\ SvgIdle

NextExport ==
  \/ ResolveOptions
  \/ ResolveOptionsSpreadLast
  \/ SwapExtension

\* resolveOptions of either exporter on every file and options, and
\* swapExtension on every path of at most MaxPathLen characters
SpecExport == InitExport /\ [][NextExport]_vars

MaxChainLiterals == 3

\* the six spellings of a connector
ArrowSpellings ==
  { << "-", ">" >>, << "-", "-", ">" >>, << "<", "-" >>, << "<", "-", "-" >>,
    << "<", "-", ">" >>, << "<", "-", "-", ">" >> }

\* a rectangle, a diamond and an image of one label
ChainLiterals ==
  { << "[", "A", "]" >>, << "{", "A", "}" >>, << "!", "[", "A", "]" >> }

\* what stands between two literals of a chain: a connector of any spelling,
\* or a connector, a quoted label and a connector
ChainLinks ==
  {<< sp >> : sp \in ArrowSpellings} \cup
  {<< << "-", ">" >>, << "\"", "x", "\"" >>, sp >> :
     sp \in {<< "-", ">" >>, << "<", "-", "-" >>}}

RECURSIVE ChainText(_, _)
\* the line of the literals with the links between them
ChainText(literals, links) ==
  IF Len(literals) = 1 THEN literals[1]
  ELSE literals[1] \o << " " >> \o JoinSpace(links[1]) \o << " " >>
         \o ChainText(Tail(literals), Tail(links))

InitChain ==
  /\ pc = "start"
  /\ \E n \in 1..MaxChainLiterals :
       \E literals \in [1..n -> ChainLiterals], links \in [1..(n - 1) -> ChainLinks] :
         /\ args = [literals |-> literals, links |-> links]
         /\ input = ChainText(literals, links)
  /\ result = None
  /\ DslIdle
  /\ CliIdle /\ JsonIdle /\ DotIdle /\ GenIdle
  /\ ApiIdle /\ LayIdle /\ ProcIdle /\ SvgIdle

NextChain ==
  \/ Tokenize
  \/ ParseImage
  \/ ParseNode
  \/ ParseArrow
  \/ ParseLabel
  \/ ReturnGraph

\* parseDSL on every one-line chain of at most MaxChainLiterals literals
SpecChain == InitChain /\ [][NextChain]_vars

MaxDotChain == 3

MaxDotDepth == 2

\* the style attributes of an edge statement: none, dashed, and dashed as the
\* second of two values in another case
DotStyles ==
  {None, Some(dashedWord), Some(<< "b", "o", "l", "d", ",", " ", "D", "a", "s", "h", "e", "d" >>)}

\* the edge statements of MaxDotChain node endpoints at most
DotChains ==
  {EdgeStatement(ts, label, None, style) :
     ts \in UNION {[1..k -> {NodeRef(id) : id \in DotIds}] : k \in 2..MaxDotChain},
     label \in {None, Some(<< "x" >>)},
     style \in DotStyles}

\* the graph that holds the statement depth subgraphs below its root
RECURSIVE Nested(_, _)
Nested(statement, depth) ==
  IF depth = 0
    THEN [nodes |-> << >>, edges |-> << statement >>, subgraphs |-> << >>]
    ELSE [nodes |-> << >>, edges |-> << >>,
          subgraphs |-> << Nested(statement, depth - 1) >>]

InitDotChain ==
  /\ pc = "dot_start"
  /\ \E statement \in DotChains, depth \in 0..MaxDotDepth :
       /\ args = [statement |-> statement, depth |-> depth]
       /\ LET g == Nested(statement, depth)
          IN dotInput = [nodes |-> g.nodes, edges |-> g.edges,
                         subgraphs |-> g.subgraphs, rankdir |-> None]
  /\ result = None
  /\ explicitNodes = << >>
  /\ allNodeIds = << >>
  /\ dotNodeMap = << >>
  /\ dotEdges = << >>
  /\ dotResult = None
  /\ input = << >> /\ DslIdle /\ CliIdle /\ JsonIdle /\ GenIdle
  /\ ApiIdle /\ LayIdle /\ ProcIdle /\ SvgIdle

\* parseDOT on every graph of one edge statement of at most MaxDotChain node
\* endpoints, at the root or at most MaxDotDepth subgraphs below it
SpecDotChain == InitDotChain /\ [][parseDOT]_vars

MaxPlacedImages == 2

MaxPlacedNodes == 2

\* the positions parseImageDirective gives: absolute, near a label with one
\* of the anchors, with an anchor that is none, and with no anchor
PlacedPositions ==
  {[type |-> "absolute", x |-> 3, y |-> 4, nodeLabel |-> << >>, anchor |-> None]} \cup
  {[type |-> "near", x |-> 0, y |-> 0, nodeLabel |-> label, anchor |-> anchor] :
     label \in {<< "A" >>, << "Z" >>},
     anchor \in {None, Some(<< "l", "e", "f", "t" >>), Some(<< "m", "i", "d" >>)}}

PlacedImages ==
  {[id |-> << "i" >>, src |-> localSrc, position |-> p, width |-> w, height |-> w] :
     p \in PlacedPositions, w \in {None, Some(20)}}

\* laid-out nodes of the labels A and B
PlacedNodes ==
  {[id |-> id, label |-> label, x |-> x, y |-> 10, width |-> 100, height |-> 60] :
     id \in {<< "n" >>}, label \in {<< "A" >>, << "B" >>}, x \in {0, 200}}

InitPlaced ==
  /\ pc = "resolveImages"
  /\ args \in [images : SeqsUpTo(PlacedImages, MaxPlacedImages),
               layoutedNodes : SeqsUpTo(PlacedNodes, MaxPlacedNodes)]
  /\ result = None
  /\ input = << >> /\ DslIdle /\ CliIdle /\ JsonIdle /\ DotIdle /\ GenIdle
  /\ ApiIdle /\ LayIdle /\ ProcIdle /\ SvgIdle

\* resolvePositionedImages on at most MaxPlacedImages images and
\* MaxPlacedNodes laid-out nodes
SpecPlaced == InitPlaced /\ [][ResolvePositionedImages]_vars

InitIndexed ==
  /\ pc = "generate"
  /\ \E kinds \in SeqsUpTo(GenNodeKinds, MaxGenNodes) :
       \E es \in SeqsUpTo({e \in GenEdgesOf : e.style = None}, MaxGenEdges) :
         \E imgs \in SeqsUpTo({[id |-> << "i", "1" >>, src |-> otherSrc]}, MaxGenImages) :
           \E sc \in SeqsUpTo({[src |-> localSrc, count |-> MaxScatterCount]}, 1) :
             \E canRead \in SUBSET {localSrc, otherSrc} :
               args = [graph |-> [nodes |-> [k \in 1..Len(kinds) |-> GenNode(k, kinds[k])],
                                  edges |-> es, images |-> imgs, scatter |-> sc],
                       readable |-> canRead]
  /\ result = None
  /\ input = << >> /\ DslIdle /\ CliIdle /\ JsonIdle /\ DotIdle /\ GenIdle
  /\ ApiIdle /\ LayIdle /\ ProcIdle /\ SvgIdle

\* the indices of the document of every graph of SpecGen
SpecIndexed == InitIndexed /\ [][GenerateIndexed]_vars

MaxLexLen == 3

\* the characters that open a literal, a label, an image, a directive, a
\* comment and a connector, a letter and a newline; no character closes
LexChars == {"[", "(", "{", "\"", "!", "@", "#", "<", "-", "x", "\n"}

InitLex ==
  /\ pc = "tokenize"
  /\ args \in SeqsUpTo(LexChars, MaxLexLen)
  /\ result = Some([i |-> 1, tokens |-> << >>])
  /\ input = << >> /\ DslIdle /\ CliIdle /\ JsonIdle /\ DotIdle /\ GenIdle
  /\ ApiIdle /\ LayIdle /\ ProcIdle /\ SvgIdle

NextLex ==
  \/ LexStep
  \/ LexReturn

\* tokenize on every text of at most MaxLexLen of the LexChars; the loop runs
\* on until it returns
SpecLex == InitLex /\ [][NextLex]_vars /\ WF_vars(NextLex)

(***************************************************************************)
(* Properties of parseDSL                                                  *)
(***************************************************************************)
IsLiteral(tok) == tok.type \in {"node", "image"}

\* the node type a literal token resolves with
LiteralType(tok) == IF tok.type = "image" THEN "image" ELSE tok.nodeType

\* the token loop is about to consume a node or image literal
AtLiteral == pc = "parse" /\ i <= Len(tokens) /\ IsLiteral(tokens[i])

\* the greatest position in from..(k - 1) whose token satisfies P; 0 if none
LastBefore(k, from, P(_)) ==
  LET cand == {j \in from..(k - 1) : P(tokens[j])}
  IN IF cand = {} THEN 0 ELSE CHOOSE j \in cand : \A m \in cand : m <= j

IsNewline(tok) == tok.type = "newline"
IsArrow(tok) == tok.type = "arrow"
IsLabel(tok) == tok.type = "label"

\* the first token of the line token k stands on
LineStart(k) == LastBefore(k, 1, IsNewline) + 1

\* the nodes of the registry that have a literal's type and label
NodesOf(ns, tok) ==
  {n \in 1..Len(ns) : ns[n].type = LiteralType(tok) /\ ns[n].label = tok.value}

\* C2: two node literals that follow one another with no arrow token between
\* them get no edge from the first to the second: consuming a literal whose
\* previous literal has no arrow after it adds no edge.
C2_NoImplicitEdge ==
  [][ (/\ AtLiteral
       /\ LastBefore(i, 1, IsLiteral) # 0
       /\ LastBefore(i, LastBefore(i, 1, IsLiteral) + 1, IsArrow) = 0)
      => edges' = edges ]_vars

\* C3: every literal consumed so far has exactly one node of its type and
\* (trimmed) label in the registry, the literal just consumed resolved to that
\* node, literals of one label and different types have different nodes, and
\* the ids of the nodes are pairwise distinct.
C3_Dedup ==
  pc \in {"parse", "parsed"} =>
    /\ \A k \in 1..(i - 1) :
         IsLiteral(tokens[k]) => Cardinality(NodesOf(nodes, tokens[k])) = 1
    /\ (i > 1 /\ IsLiteral(tokens[i - 1])) => lastNode \in NodesOf(nodes, tokens[i - 1])
    /\ \A k, m \in 1..(i - 1) :
         (/\ IsLiteral(tokens[k]) /\ IsLiteral(tokens[m])
          /\ LiteralType(tokens[k]) # LiteralType(tokens[m]))
         => NodesOf(nodes, tokens[k]) \cap NodesOf(nodes, tokens[m]) = {}
    /\ \A m, n \in 1..Len(nodes) : m # n => nodes[m].id # nodes[n].id

\* a text with `[A]` and `[ A]` (one rectangle) and `{A}` (a diamond) has been
\* parsed into two nodes
C3_Witness ==
  /\ pc = "parsed"
  /\ input = << "[", "A", "]", "[", " ", "A", "]", "{", "A", "}" >>
  /\ Len(nodes) = 2
  /\ nodes[1].type = "rectangle" /\ nodes[2].type = "diamond"
  /\ nodes[1].label = nodes[2].label

\* the mapping table of the connectors: (startArrowhead, endArrowhead, stroke)
ArrowTable(sp) ==
  CASE sp = << "-", ">" >> -> << "null", "arrow", "undefined" >>
    [] sp = << "-", "-", ">" >> -> << "null", "arrow", "dashed" >>
    [] sp = << "<", "-" >> -> << "arrow", "null", "undefined" >>
    [] sp = << "<", "-", "-" >> -> << "arrow", "null", "dashed" >>
    [] sp = << "<", "-", ">" >> -> << "arrow", "arrow", "undefined" >>
    [] sp = << "<", "-", "-", ">" >> -> << "arrow", "arrow", "dashed" >>

StyleTriple(st) == << st.startArrowhead, st.endArrowhead, st.strokeStyle >>

\* C4: a connector spelling between two literals, with or without blanks
\* around it, is one arrow token of that spelling, and the edge it makes has
\* the style triple of the mapping table.
C4_ArrowFlags ==
  pc = "parsed" =>
    \A sp \in ArrowSpellings :
      \A before, after \in {<< >>, << " " >>} :
        input = << "[", "A", "]" >> \o before \o sp \o after \o << "{", "B", "}" >>
        => /\ Len(tokens) = 3
           /\ tokens[2].type = "arrow"
           /\ tokens[2].value = sp
           /\ Len(edges) = 1
           /\ StyleTriple(edges[1].style) = ArrowTable(sp)

\* `[A]<--{B}` has been parsed into its reverse dashed edge
C4_Witness ==
  /\ pc = "parsed"
  /\ input = << "[", "A", "]", "<", "-", "-", "{", "B", "}" >>
  /\ Len(edges) = 1
  /\ StyleTriple(edges[1].style) = << "arrow", "null", "dashed" >>

\* C9: a newline token clears lastNode, the pending label and the pending
\* arrow flags; and an edge is made of tokens of its own line only: its source
\* is the node of a literal of the line, its style that of an arrow token of
\* the line, its label (if any) that of a label token of the line.
C9_NewlineResets ==
  [][ /\ AtToken("newline") =>
           /\ lastNode' = 0
           /\ pendingLabel' = None
           /\ ~pendingDashed' /\ ~pendingBidirectional' /\ ~pendingReversed'
           /\ ~pendingArrow'
      /\ (AtLiteral /\ edges' # edges) =>
           LET e == edges'[Len(edges')]
               line == LineStart(i)..(i - 1)
           IN /\ \E j \in line :
                   /\ IsLiteral(tokens[j])
                   /\ \E n \in NodesOf(nodes', tokens[j]) : nodes'[n].id = e.source
              /\ \E a \in line :
                   /\ IsArrow(tokens[a])
                   /\ e.style = buildEdgeStyle(tokens[a].dashed,
                                  tokens[a].bidirectional, tokens[a].reversed)
              /\ e.label # None =>
                   \E l \in line : IsLabel(tokens[l]) /\ e.label = Some(tokens[l].value)
    ]_vars

\* a literal, a connector, a newline and a literal have been parsed and the
\* connector before the newline made no edge
C9_Witness ==
  /\ pc = "parsed"
  /\ Len(tokens) = 4
  /\ [k \in 1..4 |-> tokens[k].type] = << "node", "arrow", "newline", "node" >>
  /\ edges = << >>
  /\ Len(nodes) = 2

\* the decoration a decorate token carries
DecorationOf(tok) == [src |-> tok.imageSrc, anchor |-> tok.decorationAnchor]

DirectiveName(tok) == SplitChar(tok.value, " ", << >>)[1]
DirectiveValue(tok) == JoinSpace(Tail(SplitChar(tok.value, " ", << >>)))

\* the positions of the @direction directives that name a direction
DirectionDirectives ==
  {k \in 1..Len(tokens) :
     /\ tokens[k].type = "directive"
     /\ DirectiveName(tokens[k]) = directionWord
     /\ ToUpperCase(DirectiveValue(tokens[k])) \in FlowDirections}

\* the positions of the @spacing directives that give a number
SpacingDirectives ==
  {k \in 1..Len(tokens) :
     /\ tokens[k].type = "directive"
     /\ DirectiveName(tokens[k]) = spacingWord
     /\ ParseInt(DirectiveValue(tokens[k])) # None}

Last(S) == CHOOSE k \in S : \A m \in S : m <= k

\* C8: the direction and the node spacing layout is called with are those of
\* the last @direction / @spacing directive of the input if there is one,
\* else those of --direction / --spacing if the caller gave a usable one, else
\* TB and 50.
C8_DirectiveFirst ==
  pc = "layouted" =>
    /\ layoutCall[1].direction =
         IF DirectionDirectives # {}
           THEN ToUpperCase(DirectiveValue(tokens[Last(DirectionDirectives)]))
         ELSE IF Truthy(cliDirection) /\ ToUpperCase(cliDirection[1]) \in FlowDirections
           THEN ToUpperCase(cliDirection[1])
         ELSE dirTB
    /\ layoutCall[1].nodeSpacing =
         IF SpacingDirectives # {}
           THEN ParseInt(DirectiveValue(tokens[Last(SpacingDirectives)]))[1]
         ELSE IF Truthy(cliSpacing) /\ ParseInt(cliSpacing[1]) # None
           THEN ParseInt(cliSpacing[1])[1]
         ELSE DefaultNodeSpacing

(***************************************************************************)
(* Properties of parseJSON                                                 *)
(***************************************************************************)
JsonNodeIds == {jsonInput.nodes[k].id : k \in 1..Len(jsonInput.nodes)}

\* the edges of the input with an end that is the id of no node
JsonBadEdges ==
  {k \in 1..Len(jsonInput.edges) :
     \/ jsonInput.edges[k].from \notin JsonNodeIds
     \/ jsonInput.edges[k].to \notin JsonNodeIds}

\* end is the id of the returned node that ref resolves to: ref itself, or
\* the generated id of the node declared with an empty id
JsonResolves(res, ref, end) ==
  /\ \E n \in 1..Len(res.nodes) : res.nodes[n].id = end
  /\ ref # << >> => end = ref
  /\ ref = << >> => Head(end) = "#"

\* C5: parseJSON ends by throwing exactly when an edge has an end that is the
\* id of no node, and the message then names a missing end of the first such
\* edge (its from if that is missing, else its to); otherwise it returns a
\* graph with one edge per input edge, in order, whose source and target are
\* the ids of the returned nodes that from and to resolve to.
C5_ReferentialIntegrity ==
  /\ pc \notin {"json_thrown", "json_returned"} => jsonResult = None
  /\ pc \in {"json_thrown", "json_returned"} =>
       LET res == jsonResult[1]
       IN IF JsonBadEdges # {}
            THEN LET e == jsonInput.edges[CHOOSE k \in JsonBadEdges :
                                            \A m \in JsonBadEdges : k <= m]
                 IN /\ pc = "json_thrown"
                    /\ res.thrown
                    /\ IF e.from \notin JsonNodeIds
                         THEN res.text = unknownSource /\ res.id = e.from
                         ELSE res.text = unknownTarget /\ res.id = e.to
            ELSE /\ pc = "json_returned"
                 /\ ~res.thrown
                 /\ Len(res.edges) = Len(jsonInput.edges)
                 /\ \A k \in 1..Len(res.edges) :
                      /\ JsonResolves(res, jsonInput.edges[k].from, res.edges[k].source)
                      /\ JsonResolves(res, jsonInput.edges[k].to, res.edges[k].target)

\* an input whose second edge has a known source and an unknown target has
\* been rejected with the message that names the target
C5_Witness ==
  /\ pc = "json_thrown"
  /\ Len(jsonEdges) = 1
  /\ jsonResult[1].text = unknownTarget
  /\ jsonResult[1].id = jsonInput.edges[2].to
  /\ jsonInput.edges[2].from \in JsonNodeIds

(***************************************************************************)
(* Properties of parseDOT                                                  *)
(***************************************************************************)
SeqRange(seq) == {seq[k] : k \in 1..Len(seq)}

\* the root graph and its subgraphs
DotGraphs == {dotInput} \cup SeqRange(dotInput.subgraphs)

\* (a) the ids declared by a node statement
DotDeclaredIds == UNION {SeqRange(g.nodes) : g \in DotGraphs}

\* (b) the ids an edge statement names as an endpoint, alone or in a group
DotEdgeIds ==
  UNION {UNION {UNION {(IF t.id = None THEN {} ELSE {t.id[1]}) \cup SeqRange(t.group) :
                         t \in SeqRange(e.targets)} :
                  e \in SeqRange(g.edges)} :
           g \in DotGraphs}

\* C6: the nodes parseDOT returns are one node for each id that is declared
\* or is an endpoint of an edge, and no other node.
C6_NodeUnion ==
  pc = "dot_returned" =>
    /\ SeqRange(MapKeys(dotNodeMap)) = DotDeclaredIds \cup DotEdgeIds
    /\ Len(dotResult[1].nodes) = Cardinality(DotDeclaredIds \cup DotEdgeIds)

(***************************************************************************)
(* Properties of generateExcalidraw                                        *)
(***************************************************************************)
ElementIds(els) == {els[k].id : k \in 1..Len(els)}

\* C1: in the returned document every id of a boundElements list and every
\* containerId is the id of an element, and every image's fileId is a key of
\* the files table.
C1_BindingClosure ==
  pc = "gen_returned" =>
    LET doc == genResult[1]
        ids == ElementIds(doc.elements)
    IN \A k \in 1..Len(doc.elements) :
         LET el == doc.elements[k]
         IN /\ el.boundElements # None =>
                 \A b \in 1..Len(el.boundElements[1]) : el.boundElements[1][b].id \in ids
            /\ el.containerId # None => el.containerId[1] \in ids
            /\ el.type = "image" => el.fileId # None /\ el.fileId[1] \in doc.files

\* what an arrowhead field of a style stands for: the default when it is absent
ArrowheadOf(style, field, default) ==
  IF style = None THEN default
  ELSE IF style[1][field] = "undefined" THEN default
  ELSE style[1][field]

\* C7: the arrow element of an edge has at each end the arrowhead of the
\* edge's style: the default (null at the start, arrow at the end) when the
\* field is absent, none (null) when it is null, the arrowhead itself otherwise.
C7_ArrowheadsKept ==
  pc = "gen_returned" =>
    \A e \in 1..Len(graph.edges) :
      \A k \in 1..Len(elements) :
        (elements[k].type = "arrow" /\ elements[k].id = graph.edges[e].id) =>
          /\ elements[k].startArrowhead =
               ArrowheadOf(graph.edges[e].style, "startArrowhead", "null")
          /\ elements[k].endArrowhead =
               ArrowheadOf(graph.edges[e].style, "endArrowhead", "arrow")

(***************************************************************************)
(* Properties of the programmatic API                                      *)
(***************************************************************************)
\* C11: whatever the other calls of the process do, the elements of a call
\* get the index values 1, 2, ... they would get if the call ran alone, all of
\* them once the call is done, and no two calls are generating at once.
C11_IndicesAsAlone ==
  /\ \A p \in DOMAIN apiPc :
       /\ apiPc[p] \in {"generate", "done"} =>
            apiIndices[p] = [k \in 1..Len(apiIndices[p]) |-> k]
       /\ apiPc[p] = "done" => Len(apiIndices[p]) = ElementCount(apiGraph[p])
  /\ \A p, q \in DOMAIN apiPc :
       (apiPc[p] = "generate" /\ apiPc[q] = "generate") => p = q

\* two calls have passed each other at the await of the layout, and both are
\* done with a document of several elements
C11_Witness ==
  /\ pc = "api"
  /\ \A p \in DOMAIN apiPc : apiPc[p] = "done" /\ Len(apiIndices[p]) > 1
  /\ Len(apiIndices[1]) # Len(apiIndices[2])

(***************************************************************************)
(* Properties of generateExcalidraw: images                                *)
(***************************************************************************)
\* the image sources of a node: its image, or else its decorations
NodeSrcs(node) ==
  IF node.type = "image" /\ node.image # None THEN << node.image[1] >>
  ELSE [d \in 1..Len(node.decorations) |-> node.decorations[d].src]

\* every image source of a graph, once for each image it asks for
ImageSrcs(g) ==
  Flatten([k \in 1..Len(g.nodes) |-> NodeSrcs(g.nodes[k])])
    \o [k \in 1..Len(g.images) |-> g.images[k].src]
    \o Flatten([k \in 1..Len(g.scatter) |->
                  [n \in 1..g.scatter[k].count |-> g.scatter[k].src]])

Creatable(src) == createFileData(src, << >>, readable) # None

IsImage(el) == el.type = "image"

NotImage(el) == el.type # "image"

\* an element without the id it has drawn
WithoutDrawnId(el) ==
  IF el.id # << >> /\ Head(el.id) = "#" THEN [el EXCEPT !.id = << >>] ELSE el

WithoutDrawnIds(els) == [k \in 1..Len(els) |-> WithoutDrawnId(els[k])]

C13_DanglingEdgesDropped ==
  /\ layPc # "rejected"
  /\ layPc = "returned" =>
       layResult[1].edges =
         SelectSeq(layGraph.edges, LAMBDA e : ~Dangling(layGraph, e))

\* C14: every scatter image has 0 <= x < canvasWidth - width and
\* 0 <= y < canvasHeight - height (coordinates multiplied by RandomDenominator).
C14_ScatterInsideCanvas ==
  layPc = "returned" =>
    \A k \in 1..Len(scatterPlaced) :
      LET im == scatterPlaced[k]
      IN /\ 0 <= im.x
         /\ im.x < RandomDenominator * (layResult[1].width - im.width)
         /\ 0 <= im.y
         /\ im.y < RandomDenominator * (layResult[1].height - im.height)

(***************************************************************************)
(* Properties of generateExcalidraw: stacking order                        *)
(***************************************************************************)
\* what the order is about: the type of an element, and its id unless drawn
OrderTag(type, id) == [type |-> type, id |-> id]

TagsOf(els) ==
  [k \in 1..Len(els) |->
     OrderTag(els[k].type, WithoutDrawnId(els[k]).id)]

\* an image for each source of the sequence whose file data can be created
CreatedImages(srcs) ==
  LET made == SelectSeq(srcs, Creatable)
  IN [k \in 1..Len(made) |-> OrderTag("image", << >>)]

NodeOrder(node) ==
  IF node.type = "image" /\ node.image # None
    THEN IF Creatable(node.image[1]) THEN << OrderTag("image", node.id) >> ELSE << >>
    ELSE << OrderTag(node.type, node.id), OrderTag("text", << >>) >>
           \o CreatedImages(NodeSrcs(node))

EdgeOrder(g, edge) ==
  IF Dangling(g, edge) THEN << >>
  ELSE << OrderTag("arrow", edge.id) >>
         \o (IF edge.label # None /\ edge.label # Some(<< >>)
               THEN << OrderTag("text", << "t", "e", "x", "t", "-" >> \o edge.id) >>
               ELSE << >>)

DirectiveOrder(image) ==
  IF Creatable(image.src) THEN << OrderTag("image", image.id) >> ELSE << >>

StackingOrder(g) ==
  CreatedImages(Flatten([k \in 1..Len(g.scatter) |->
                           [n \in 1..g.scatter[k].count |-> g.scatter[k].src]]))
    \o Flatten([k \in 1..Len(g.nodes) |-> NodeOrder(g.nodes[k])])
    \o Flatten([k \in 1..Len(g.edges) |-> EdgeOrder(g, g.edges[k])])
    \o Flatten([k \in 1..Len(g.images) |-> DirectiveOrder(g.images[k])])

PlaceOfId(ns, id) ==
  IF \E k \in 1..Len(ns) : ns[k].id = id
    THEN CHOOSE k \in 1..Len(ns) : ns[k].id = id
    ELSE 0

\* a graph with its generated ids renamed: a node is named by its place, an
\* edge by the places of its ends
Renamed(g) ==
  [g EXCEPT !.nodes = [k \in 1..Len(g.nodes) |-> [g.nodes[k] EXCEPT !.id = k]],
            !.edges = [k \in 1..Len(g.edges) |->
                         [g.edges[k] EXCEPT !.id = 0,
                                            !.source = PlaceOfId(g.nodes, @),
                                            !.target = PlaceOfId(g.nodes, @)]]]

\* the parses made so far, the one that has just returned included
Parses == parsed \o LastParse

DecorationAnchors ==
  { << "t", "o", "p" >>,
    << "b", "o", "t", "t", "o", "m" >>,
    << "l", "e", "f", "t" >>,
    << "r", "i", "g", "h", "t" >>,
    << "t", "o", "p", "-", "l", "e", "f", "t" >>,
    << "t", "o", "p", "-", "r", "i", "g", "h", "t" >>,
    << "b", "o", "t", "t", "o", "m", "-", "l", "e", "f", "t" >>,
    << "b", "o", "t", "t", "o", "m", "-", "r", "i", "g", "h", "t" >> }

\* C17: every decoration of a node has one of the eight anchors, and every
\* near placement of an image has one of the eight anchors or none.
C17_AnchorsValid ==
  /\ \A n \in 1..Len(nodes) :
       \A d \in 1..Len(nodes[n].decorations) :
         nodes[n].decorations[d].anchor \in DecorationAnchors
  /\ \A k \in 1..Len(images) :
       images[k].position.type = "near" =>
         \/ images[k].position.anchor = None
         \/ images[k].position.anchor[1] \in DecorationAnchors

(***************************************************************************)
(* Properties of the three parsers: the direction                          *)
(***************************************************************************)
\* C18: the options of a graph returned by parseDSL, parseJSON or parseDOT
\* have one of the four directions TB, BT, LR, RL.
C18_DirectionValid ==
  /\ pc = "parsed" => options.direction \in FlowDirections
  /\ pc = "json_returned" => jsonResult[1].options.direction \in FlowDirections
  /\ pc = "dot_returned" => dotResult[1].options.direction \in FlowDirections

(***************************************************************************)
(* Properties of the exporter                                              *)
(***************************************************************************)
\* C19: whatever the interleaving of the calls, the polyfill is installed at
\* most once.
C19_InstalledOnce == installs <= 1

\* C20: once every call of convertToSVG has settled, console.error is the
\* native function again.
C20_ConsoleErrorRestored ==
  (pc = "export" /\ \A p \in DOMAIN svgPc : svgPc[p] \in {"resolved", "rejected"})
    => consoleError = 0

(***************************************************************************)
(* Properties of resolveOptions and swapExtension                          *)
(***************************************************************************)
Provided(v) == v \notin {"absent", "undefined"}

\* C21: resolveOptions returns options with every field populated, and the
\* background colour is the one provided, else the one of the file's
\* appState, else the default.
C21_OptionsResolved ==
  pc = "resolved" =>
    /\ \A k \in ExportKeys : Provided(result[1][k])
    /\ result[1].viewBackgroundColor =
         IF Provided(args.options.viewBackgroundColor)
           THEN args.options.viewBackgroundColor
         ELSE IF Provided(args.file.viewBackgroundColor)
           THEN args.file.viewBackgroundColor
         ELSE "#ffffff"

\* the directory part of a path: up to and with its last slash
DirOf(path) == SubSeq(path, 1, LastIndexOf(path, "/") + 1)

\* the final component of a path
NameOf(path) == SubSeq(path, LastIndexOf(path, "/") + 2, Len(path))

\* C22: swapExtension returns the directory part unchanged, followed by the
\* file name with its extension replaced by newExt if it has a dot after its
\* first character; otherwise it returns the whole path with .newExt appended.
C22_OnlyExtensionSwapped ==
  pc = "swapped" =>
    LET name == NameOf(args.filePath)
        dot == LastIndexOf(name, ".")
    IN result[1] =
         IF dot > 0
           THEN DirOf(args.filePath) \o SubSeq(name, 1, dot) \o << "." >> \o args.newExt
           ELSE args.filePath \o << "." >> \o args.newExt

(***************************************************************************)
(* Properties of parseDSL: chains                                          *)
(***************************************************************************)
\* the type and the label a literal of the text stands for
LexemeType(lit) ==
  IF lit[1] = "!" THEN "image" ELSE IF lit[1] = "{" THEN "diamond" ELSE "rectangle"

LexemeLabel(lit) ==
  IF lit[1] = "!" THEN SubSeq(lit, 3, Len(lit) - 1) ELSE SubSeq(lit, 2, Len(lit) - 1)

\* id is the id of the node the literal stands for
IsNodeOf(id, lit) ==
  \E n \in 1..Len(nodes) :
    /\ nodes[n].id = id
    /\ nodes[n].type = LexemeType(lit)
    /\ nodes[n].label = LexemeLabel(lit)

\* C23: a line of n literals with one connector (or connector, label,
\* connector) between each consecutive pair gives exactly n - 1 edges, the
\* k-th from the k-th literal to the (k+1)-th, whatever the spelling of the
\* connector.
C23_ChainEdges ==
  pc = "parsed" =>
    /\ Len(edges) = Len(args.literals) - 1
    /\ \A k \in 1..Len(edges) :
         /\ IsNodeOf(edges[k].source, args.literals[k])
         /\ IsNodeOf(edges[k].target, args.literals[k + 1])

\* `[A] <- {A} -> "x" <-- ![A]` has been parsed into its two edges
C23_Witness ==
  /\ pc = "parsed"
  /\ args.literals = << << "[", "A", "]" >>, << "{", "A", "}" >>,
                        << "!", "[", "A", "]" >> >>
  /\ args.links = << << << "<", "-" >> >>,
                     << << "-", ">" >>, << "\"", "x", "\"" >>, << "<", "-", "-" >> >> >>
  /\ Len(edges) = 2
  /\ edges[2].label = Some(<< "x" >>)

(***************************************************************************)
(* Properties of parseDOT: chains                                          *)
(***************************************************************************)
\* id is the id of the returned node of the DOT id a target names
IsDotNodeOf(id, target) ==
  \E n \in 1..Len(dotResult[1].nodes) :
    /\ dotResult[1].nodes[n].id = id
    /\ Some(dotResult[1].nodes[n].label) = target.id

\* C24: an edge statement of k >= 2 node endpoints, at the root or in a
\* nested subgraph, gives exactly k - 1 edges, the j-th from the j-th endpoint
\* to the (j+1)-th, each with the label and the style of the statement, and
\* the ends of every edge are ids of returned nodes.
C24_DotChainEdges ==
  pc = "dot_returned" =>
    LET statement == args.statement
        es == dotResult[1].edges
    IN /\ Len(es) = Len(statement.targets) - 1
       /\ \A j \in 1..Len(es) :
            /\ IsDotNodeOf(es[j].source, statement.targets[j])
            /\ IsDotNodeOf(es[j].target, statement.targets[j + 1])
            /\ es[j].label = statement.attributes.label
            /\ es[j].style = extractEdgeStyle(statement)

(***************************************************************************)
(* Properties of generateExcalidraw: bindings                              *)
(***************************************************************************)
\* the edges of the graph that have the node as their source or their target
EdgesAt(g, node) ==
  {g.edges[k].id : k \in {j \in 1..Len(g.edges) :
                            g.edges[j].source = node.id \/ g.edges[j].target = node.id}}

\* C25: the boundElements of the shape of a node that is no image lists the
\* edges that have the node as source or target, each once (a self-loop
\* too) and as an arrow, and nothing else, and is null when there is no such
\* edge; every image element has boundElements null.
C25_NodeBindings ==
  pc = "gen_returned" =>
    LET els == genResult[1].elements
    IN /\ \A n \in 1..Len(graph.nodes) : \A k \in 1..Len(els) :
            (graph.nodes[n].type # "image" /\ els[k].id = graph.nodes[n].id) =>
              LET touching == EdgesAt(graph, graph.nodes[n])
                  bound == els[k].boundElements
              IN IF touching = {} THEN bound = None
                 ELSE /\ bound # None
                      /\ {bound[1][b].id : b \in 1..Len(bound[1])} = touching
                      /\ Len(bound[1]) = Cardinality(touching)
                      /\ \A b \in 1..Len(bound[1]) : bound[1][b].type = "arrow"
       /\ \A k \in 1..Len(els) : els[k].type = "image" => els[k].boundElements = None

TextIdOf(edge) == << "t", "e", "x", "t", "-" >> \o edge.id

\* C26: an arrow of an edge with a label that is not empty has exactly one
\* text element text-<edge id>, whose containerId is the arrow, and is bound
\* to exactly that text; an arrow of an edge without a label has boundElements
\* null and is the container of no text; the text of a node has no container.
C26_EdgeLabelBinding ==
  pc = "gen_returned" =>
    LET els == genResult[1].elements
        Labelled(edge) == edge.label # None /\ edge.label # Some(<< >>)
    IN /\ \A e \in 1..Len(graph.edges) : \A a \in 1..Len(els) :
            (els[a].type = "arrow" /\ els[a].id = graph.edges[e].id) =>
              LET edge == graph.edges[e]
                  texts == {t \in 1..Len(els) : els[t].id = TextIdOf(edge)}
              IN IF Labelled(edge)
                   THEN /\ Cardinality(texts) = 1
                        /\ \A t \in texts : /\ els[t].type = "text"
                                            /\ els[t].containerId = Some(els[a].id)
                        /\ els[a].boundElements =
                             Some(<< [id |-> TextIdOf(edge), type |-> "text"] >>)
                   ELSE /\ els[a].boundElements = None
                        /\ \A t \in 1..Len(els) :
                             els[t].type = "text" => els[t].containerId # Some(els[a].id)
       /\ \A t \in 1..Len(els) :
            (/\ els[t].type = "text"
             /\ \A e \in 1..Len(graph.edges) : els[t].id # TextIdOf(graph.edges[e]))
            => els[t].containerId = None

\* a document with a rectangle, its text, and the arrow and the label text of
\* a labelled edge from the rectangle to itself
C26_Witness ==
  /\ pc = "gen_returned"
  /\ Len(graph.edges) = 1
  /\ graph.edges[1].label = Some(<< "l" >>)
  /\ \E a, t, n \in 1..Len(genResult[1].elements) :
       /\ genResult[1].elements[a].type = "arrow"
       /\ genResult[1].elements[t].id = TextIdOf(graph.edges[1])
       /\ genResult[1].elements[n].type = "text"
       /\ genResult[1].elements[n].containerId = None

(***************************************************************************)
(* Properties of resolvePositionedImages                                   *)
(***************************************************************************)
\* the laid-out nodes that have the label
NodesLabelled(label) ==
  {n \in 1..Len(args.layoutedNodes) : args.layoutedNodes[n].label = label}

\* C27: resolvePositionedImages returns one image for each image it is given,
\* in their order and with their id and src; an absolute image keeps its x
\* and y, an image near the label of a laid-out node stands at that node's
\* position plus the offset of the anchor, and an image near a label that no
\* laid-out node has stands at (0, 0).
C27_OneImageEach ==
  pc = "imagesResolved" =>
    /\ Len(result[1]) = Len(args.images)
    /\ \A k \in 1..Len(result[1]) :
         LET image == args.images[k]
             out == result[1][k]
         IN /\ out.id = image.id
            /\ out.src = image.src
            /\ image.position.type = "absolute" =>
                 out.x = image.position.x /\ out.y = image.position.y
            /\ (image.position.type = "near" /\ NodesLabelled(image.position.nodeLabel) # {}) =>
                 \E n \in NodesLabelled(image.position.nodeLabel) :
                   LET node == args.layoutedNodes[n]
                       offset == getAnchorOffset(image.position.anchor, node.width,
                                                 node.height, out.width, out.height)
                   IN out.x = node.x + offset.x /\ out.y = node.y + offset.y
            /\ (image.position.type = "near" /\ NodesLabelled(image.position.nodeLabel) = {}) =>
                 out.x = 0 /\ out.y = 0

\* an image near a label that no node has, before an image near a label of a
\* node, have been resolved
C27_Witness ==
  /\ pc = "imagesResolved"
  /\ Len(args.images) = 2
  /\ args.images[1].position.type = "near"
  /\ NodesLabelled(args.images[1].position.nodeLabel) = {}
  /\ args.images[2].position.type = "near"
  /\ NodesLabelled(args.images[2].position.nodeLabel) # {}
  /\ Len(result[1]) = 2

(***************************************************************************)
(* Properties of parseDSL: edge labels                                     *)
(***************************************************************************)
\* C28: an edge has a label only if a quoted string stands between its source
\* literal and its target literal, and the label is then the last such
\* string: a quoted string before the source literal never is the label.
C28_LabelBetweenEnds ==
  [][ (AtLiteral /\ edges' # edges) =>
        LET e == edges'[Len(edges')]
            source == LastBefore(i, 1, IsLiteral)
            last == LastBefore(i, source + 1, IsLabel)
        IN e.label # None => (last # 0 /\ e.label = Some(tokens[last].value)) ]_vars

(***************************************************************************)
(* Properties of the index                                                 *)
(***************************************************************************)
\* C29: of any two elements of a document the one earlier in the elements
\* array has the smaller index (so the indices are pairwise distinct), also
\* in a document with scatter images.
C29_IndexFollowsArray ==
  pc = "generated" =>
    \A j, k \in 1..Len(result[1]) : j < k => result[1][j].index < result[1][k].index

(***************************************************************************)
(* Properties of tokenize                                                  *)
(***************************************************************************)
\* C30: tokenize returns on every input: every iteration of its loop moves
\* the scan position forward and pushes at most one token, so that there are
\* at most as many tokens as characters, also when a literal, a label, an
\* image or a directive is not closed.
C30_TokenizeTerminates ==
  /\ [][ /\ result'[1].i >= result[1].i
         /\ result' # result =>
              /\ result'[1].i > result[1].i
              /\ Len(result'[1].tokens) <= Len(result[1].tokens) + 1 ]_vars
  /\ [](Len(result[1].tokens) <= Len(args))
  /\ <>(pc = "tokenized")

\* tokenize has returned on `["x`: a rectangle that is not closed
C30_Witness ==
  /\ pc = "tokenized"
  /\ args = << "[", "\"", "x" >>
  /\ Len(result[1].tokens) = 1
  /\ result[1].i > Len(args)

====
